---------------------------- MODULE Spec2Model ----------------------------
(***************************************************************************)
(* The progress-tracking observers of the voice agent                      *)
(* (backend/progress_tracker.py): STTProgressProcessor,                    *)
(* LLMProgressProcessor and TTSStatusProcessor.  Each process_frame is     *)
(* modelled as one atomic action.  A handler body is translated statement  *)
(* by statement into a list of statements (attribute assignments and       *)
(* push_frame calls) that Run executes in order, so that an exception      *)
(* raised by a push_frame call leaves exactly the effects of the           *)
(* statements executed before it.                                          *)
(***************************************************************************)
EXTENDS Integers, Sequences, FiniteSets, TLC

VARIABLES
    stt_progress,   \* STTProgressProcessor instance: [user_message_id]
    llm_progress,   \* LLMProgressProcessor instance: [assistant_text, assistant_message_id]
    tts_status,     \* TTSStatusProcessor instance: [is_speaking]
    stt_trace,      \* one record per process_frame call of stt_progress
    llm_trace,      \* one record per process_frame call of llm_progress
    tts_trace,      \* one record per process_frame call of tts_status
    to_llm_progress,  \* frames on their way from stt_progress to llm_progress
    to_tts_status,    \* frames on their way from llm_progress to tts_status
    client,         \* messages transport.output() has sent to the client
    bots,           \* per connection: None, or what its run_bot call constructed
    bots_trace,     \* one record per process_frame call in any run_bot call
    book_processor, \* None, or the BookProcessor instance of a session
    book_trace,     \* one record per process_file or clear call on it
    web_searcher,   \* the module-level web_searcher of bot.py: None or a WebSearcher
    search_trace,   \* one record per search_web call
    sessions,       \* server.sessions: per session id None, or the session record
    server_trace,   \* one record per completed session request of the server
    connections,    \* server.connections: the pc_ids it maps to their connections
    created,        \* how many SmallWebRTCConnection objects offer has constructed
    pending,        \* offer calls waiting in renegotiate or initialize
    background_tasks,  \* the connections run_bot was scheduled for, in order
    closed,         \* the connections whose closed event has fired
    offer_trace     \* one record per completed offer call or closed event

\* The links of the pipeline and its client-facing end.
pipeline_vars == <<to_llm_progress, to_tts_status, client>>

\* The concurrently running run_bot calls.
bots_vars == <<bots, bots_trace>>

\* The BookProcessor of a session.
book_vars == <<book_processor, book_trace>>

\* The web search tool.
search_vars == <<web_searcher, search_trace>>

\* The sessions of the server.
session_vars == <<sessions, server_trace>>

\* The WebRTC connections of the server.
offer_vars == <<connections, created, pending, background_tasks, closed, offer_trace>>

\* The module-level state of server.py.
server_vars == <<session_vars, offer_vars>>

\* What lies outside the three observers.
other_vars == <<pipeline_vars, bots_vars, book_vars, search_vars, server_vars>>

vars == <<stt_progress, llm_progress, tts_status, stt_trace, llm_trace, tts_trace,
          other_vars>>

(***************************************************************************)
(* Bounds of the model.                                                    *)
(***************************************************************************)
\* Most process_frame calls of one observer in a single-observer run.
MaxEvents == 4
\* Most process_frame calls in a run in which push_frame may raise.
MaxSinkFailEvents == 2
\* Most process_frame calls, over the three observers of a session, in a run
\* in which every observer is given frames of every kind.
MaxSessionEvents == 2
\* Most frames the services of the pipeline put into it in a run.
MaxPipelineFrames == 2
\* Most process_frame calls, over all run_bot calls, in a run with several.
MaxBotEvents == 3
\* Most process_file and clear calls on a BookProcessor in a run.
MaxBookCalls == 2
\* Most search_web calls in a run.
MaxSearches == 2
\* Most results in an answer of the search service (search_web asks for 3).
MaxResults == 2
\* Most frames of a stream of assistant turns given to llm_progress.
MaxTurnEvents == 6
\* Most session requests (create, upload-book, clear-book) of the server.
MaxRequests == 3
\* Most offer calls of the server.
MaxOffers == 2

(***************************************************************************)
(* Frames.                                                                 *)
(***************************************************************************)
DOWNSTREAM == "DOWNSTREAM"
UPSTREAM == "UPSTREAM"
Directions == {DOWNSTREAM, UPSTREAM}

\* Texts of the LLMTextFrame chunks; the empty string is a valid text.
Texts == {"", "A", "B"}
\* Texts of 50, 51, 30 and 31 characters, around the two preview lengths.
Text50 == "0123456789abcdefghijABCDEFGHIJ0123456789klmnopqrst"
Text51 == Text50 \o "u"
Text30 == "0123456789abcdefghijABCDEFGHIJ"
Text31 == Text30 \o "K"
\* Texts of the transcription frames and of the TTSSpeakFrame.
STTTexts == {"", Text50, Text51}
TTSTexts == {"", Text30, Text31}

\* Values int(time.time() * 1000) may return.  No handler reads the value
\* back: it is only copied into the transcript message.
Timestamps == {1000}

\* Optional[str]: None is the empty tuple, a string s is <<s>>.
None == <<>>
Some(s) == <<s>>

InterimTranscriptionFrame(text) == [kind |-> "InterimTranscriptionFrame", text |-> text]
TranscriptionFrame(text) == [kind |-> "TranscriptionFrame", text |-> text]
LLMFullResponseStartFrame == [kind |-> "LLMFullResponseStartFrame"]
LLMTextFrame(text) == [kind |-> "LLMTextFrame", text |-> text]
LLMFullResponseEndFrame == [kind |-> "LLMFullResponseEndFrame"]
TTSStartedFrame == [kind |-> "TTSStartedFrame"]
TTSStoppedFrame == [kind |-> "TTSStoppedFrame"]
TTSSpeakFrame(text) == [kind |-> "TTSSpeakFrame", text |-> text]
StartInterruptionFrame == [kind |-> "StartInterruptionFrame"]
OutputTransportMessageFrame(message) ==
    [kind |-> "OutputTransportMessageFrame", message |-> message]
\* Frames of kinds no observer handles.
OtherFrames == {[kind |-> "Frame"]}

\* Faulty variant of IsInstance: the LLMTextFrame test is made against its
\* base class, so every frame that carries a text passes it.
IsInstanceOfTextBase(frame, cls) ==
    \/ frame.kind = cls
    \/ cls = "LLMTextFrame" /\ "text" \in DOMAIN frame

\* isinstance(frame, cls)
IsInstance(frame, cls) == frame.kind = cls

(***************************************************************************)
(* Statements of a handler body.                                           *)
(***************************************************************************)
\* self.<attr> = value
Assign(attr, value) == [op |-> "assign", attr |-> attr, value |-> value]
\* await self.push_frame(OutputTransportMessageFrame(message=message), DOWNSTREAM)
Notify(message) ==
    [op |-> "push_frame", frame |-> OutputTransportMessageFrame(message),
     direction |-> DOWNSTREAM, by |-> "notify"]
\* Faulty variant of Forward: push_frame(frame), whose direction defaults to
\* DOWNSTREAM.
ForwardDefaultDirection(frame, direction) ==
    [op |-> "push_frame", frame |-> frame, direction |-> DOWNSTREAM, by |-> "forward"]

\* await self.push_frame(frame, direction): the pass-through of the input frame
Forward(frame, direction) ==
    [op |-> "push_frame", frame |-> frame, direction |-> direction, by |-> "forward"]

\* What a push_frame call hands to the next processor.
Pushed(stmt) == [frame |-> stmt.frame, direction |-> stmt.direction, by |-> stmt.by]

RECURSIVE RunFrom(_, _, _, _, _, _)
\* Executes stmts[i..] on the instance `self`; the failAt-th notification
\* push raises (0: none does).  notified counts the notification pushes done.
RunFrom(self, stmts, i, pushed, notified, failAt) ==
    IF i > Len(stmts)
    THEN [self |-> self, pushed |-> pushed, raised |-> FALSE]
    ELSE LET s == stmts[i] IN
         IF s.op = "assign"
         THEN RunFrom([self EXCEPT ![s.attr] = s.value], stmts, i + 1,
                      pushed, notified, failAt)
         ELSE IF s.by = "notify" /\ notified + 1 = failAt
         THEN [self |-> self, pushed |-> pushed, raised |-> TRUE]
         ELSE RunFrom(self, stmts, i + 1, Append(pushed, Pushed(s)),
                      IF s.by = "notify" THEN notified + 1 ELSE notified, failAt)

\* The outcome of one process_frame call whose body is stmts.
Run(self, stmts, failAt) == RunFrom(self, stmts, 1, <<>>, 0, failAt)

\* Number of notification pushes in a handler body.
NotifyCount(stmts) == Cardinality({i \in 1..Len(stmts) : stmts[i].op = "push_frame" /\ stmts[i].by = "notify"})

(***************************************************************************)
(* Notification helpers (_send_status, _send_transcript, _send_log).       *)
(***************************************************************************)
SendStatus(status, text) ==
    Notify(IF text # None /\ text[1] # ""
           THEN [type |-> "status", status |-> status, text |-> text[1]]
           ELSE [type |-> "status", status |-> status])

SendTranscript(role, text, final, message_id, ts) ==
    Notify(IF message_id # None
           THEN [type |-> "transcript", role |-> role, text |-> text, final |-> final,
                 timestamp |-> ts, messageId |-> message_id[1]]
           ELSE [type |-> "transcript", role |-> role, text |-> text, final |-> final,
                 timestamp |-> ts])

SendLog(text) == Notify([type |-> "log", text |-> text])

\* text[:n]
Prefix(text, n) == SubSeq(text, 1, IF Len(text) < n THEN Len(text) ELSE n)

(***************************************************************************)
(* STTProgressProcessor.                                                   *)
(***************************************************************************)
STTPreviewLen == 50

\* STTProgressProcessor.__init__
STTInit == [user_message_id |-> 0]

\* Faulty variant of STTLogText: the ellipsis is added from 50 characters on.
STTLogTextOffByOne(text) ==
    "STT: \"" \o Prefix(text, STTPreviewLen)
              \o (IF Len(text) >= STTPreviewLen THEN "..." ELSE "") \o "\""

\* f"STT: \"{frame.text[:50]}{'...' if len(frame.text) > 50 else ''}\""
STTLogText(text) ==
    "STT: \"" \o Prefix(text, STTPreviewLen)
              \o (IF Len(text) > STTPreviewLen THEN "..." ELSE "") \o "\""

\* Faulty variant of STTOnInterim: an interim transcription is counted as a
\* message.
STTOnInterimCounted(self, frame) ==
    <<Assign("user_message_id", self.user_message_id + 1),
      SendStatus("listening", Some(frame.text))>>

\* The InterimTranscriptionFrame branch.
STTOnInterim(self, frame) ==
    <<SendStatus("listening", Some(frame.text))>>

\* Faulty variant of STTOnTranscription: the counter is not incremented.
STTOnTranscriptionNoIncrement(self, frame, ts) ==
    <<SendStatus("stt", Some(frame.text)),
      SendLog(STTLogText(frame.text)),
      SendTranscript("user", frame.text, TRUE, Some(self.user_message_id), ts),
      SendStatus("llm", None),
      SendLog("Sending to LLM...")>>

\* Faulty variant of STTOnTranscription: the llm status is sent before the
\* transcript.
STTOnTranscriptionStatusFirst(self, frame, ts) ==
    <<Assign("user_message_id", self.user_message_id + 1),
      SendStatus("stt", Some(frame.text)),
      SendLog(STTLogText(frame.text)),
      SendStatus("llm", None),
      SendTranscript("user", frame.text, TRUE, Some(self.user_message_id + 1), ts),
      SendLog("Sending to LLM...")>>

\* The TranscriptionFrame branch.
STTOnTranscription(self, frame, ts) ==
    <<Assign("user_message_id", self.user_message_id + 1),
      SendStatus("stt", Some(frame.text)),
      SendLog(STTLogText(frame.text)),
      SendTranscript("user", frame.text, TRUE, Some(self.user_message_id + 1), ts),
      SendStatus("llm", None),
      SendLog("Sending to LLM...")>>

\* Faulty variant of STTProcessFrame: the frame is passed through before the
\* notifications are pushed.
STTProcessFrameForwardFirst(self, frame, direction, ts) ==
    <<Forward(frame, direction)>>
    \o (IF IsInstance(frame, "InterimTranscriptionFrame")
        THEN STTOnInterim(self, frame)
        ELSE IF IsInstance(frame, "TranscriptionFrame")
        THEN STTOnTranscription(self, frame, ts)
        ELSE <<>>)

\* The body of STTProgressProcessor.process_frame.
STTProcessFrame(self, frame, direction, ts) ==
    (IF IsInstance(frame, "InterimTranscriptionFrame")
     THEN STTOnInterim(self, frame)
     ELSE IF IsInstance(frame, "TranscriptionFrame")
     THEN STTOnTranscription(self, frame, ts)
     ELSE <<>>)
    \o <<Forward(frame, direction)>>

STTInputs ==
    {InterimTranscriptionFrame(t) : t \in STTTexts}
    \cup {TranscriptionFrame(t) : t \in STTTexts}
    \cup OtherFrames

(***************************************************************************)
(* LLMProgressProcessor.                                                   *)
(***************************************************************************)
\* LLMProgressProcessor.__init__
LLMInit == [assistant_text |-> "", assistant_message_id |-> 0]

\* f"LLM complete: {len(self._assistant_text)} chars"
LLMCompleteText(text) == "LLM complete: " \o ToString(Len(text)) \o " chars"

\* Faulty variant of LLMOnStart: the message counter is not incremented.
LLMOnStartNoIncrement(self) ==
    <<Assign("assistant_text", ""),
      SendLog("LLM streaming response...")>>

\* Faulty variant of LLMOnStart: the accumulated text is not reset.
LLMOnStartNoReset(self) ==
    <<Assign("assistant_message_id", self.assistant_message_id + 1),
      SendLog("LLM streaming response...")>>

\* The LLMFullResponseStartFrame branch.
LLMOnStart(self) ==
    <<Assign("assistant_text", ""),
      Assign("assistant_message_id", self.assistant_message_id + 1),
      SendLog("LLM streaming response...")>>

\* Faulty variant of LLMOnText: the transcript carries the chunk, not the
\* accumulated text.
LLMOnTextDelta(self, frame, ts) ==
    <<Assign("assistant_text", self.assistant_text \o frame.text),
      SendTranscript("assistant", frame.text, FALSE,
                     Some(self.assistant_message_id), ts)>>

\* The LLMTextFrame branch.
LLMOnText(self, frame, ts) ==
    <<Assign("assistant_text", self.assistant_text \o frame.text),
      SendTranscript("assistant", self.assistant_text \o frame.text, FALSE,
                     Some(self.assistant_message_id), ts)>>

\* Faulty variant of LLMOnEnd: the accumulated text is not reset after the
\* final transcript.
LLMOnEndNoReset(self, ts) ==
    (IF self.assistant_text # ""
     THEN <<SendTranscript("assistant", self.assistant_text, TRUE,
                           Some(self.assistant_message_id), ts),
            SendLog(LLMCompleteText(self.assistant_text))>>
     ELSE <<>>)
    \o <<SendLog("Sending to TTS...")>>

\* The LLMFullResponseEndFrame branch.
LLMOnEnd(self, ts) ==
    (IF self.assistant_text # ""
     THEN <<SendTranscript("assistant", self.assistant_text, TRUE,
                           Some(self.assistant_message_id), ts),
            SendLog(LLMCompleteText(self.assistant_text)),
            Assign("assistant_text", "")>>
     ELSE <<>>)
    \o <<SendLog("Sending to TTS...")>>

\* The body of LLMProgressProcessor.process_frame.
LLMProcessFrame(self, frame, direction, ts) ==
    (IF IsInstance(frame, "LLMFullResponseStartFrame")
     THEN LLMOnStart(self)
     ELSE IF IsInstance(frame, "LLMTextFrame")
     THEN LLMOnText(self, frame, ts)
     ELSE IF IsInstance(frame, "LLMFullResponseEndFrame")
     THEN LLMOnEnd(self, ts)
     ELSE <<>>)
    \o <<Forward(frame, direction)>>

LLMInputs ==
    {LLMFullResponseStartFrame, LLMFullResponseEndFrame}
    \cup {LLMTextFrame(t) : t \in Texts}
    \cup OtherFrames

(***************************************************************************)
(* TTSStatusProcessor.                                                     *)
(***************************************************************************)
TTSPreviewLen == 30

\* TTSStatusProcessor.__init__
TTSInit == [is_speaking |-> FALSE]

\* text_preview = frame.text[:30] + "..." if len(frame.text) > 30 else frame.text
TTSTextPreview(text) ==
    IF Len(text) > TTSPreviewLen THEN Prefix(text, TTSPreviewLen) \o "..." ELSE text

\* f"TTS: \"{text_preview}\""
TTSLogText(text) == "TTS: \"" \o TTSTextPreview(text) \o "\""

\* Faulty variant of TTSOnInterruption: no test of the speaking flag.
TTSOnInterruptionUnguarded(self) ==
    <<Assign("is_speaking", FALSE),
      Notify([type |-> "status", status |-> "idle"]),
      Notify([type |-> "log", text |-> "Interrupted by user"])>>

\* The StartInterruptionFrame branch.
TTSOnInterruption(self) ==
    IF self.is_speaking
    THEN <<Assign("is_speaking", FALSE),
           Notify([type |-> "status", status |-> "idle"]),
           Notify([type |-> "log", text |-> "Interrupted by user"])>>
    ELSE <<>>

\* Faulty variant of TTSOnStarted: no test of the speaking flag.
TTSOnStartedUnguarded(self) ==
    <<Assign("is_speaking", TRUE),
      Notify([type |-> "status", status |-> "tts"]),
      Notify([type |-> "log", text |-> "TTS speaking..."])>>

\* The TTSStartedFrame branch.
TTSOnStarted(self) ==
    IF ~self.is_speaking
    THEN <<Assign("is_speaking", TRUE),
           Notify([type |-> "status", status |-> "tts"]),
           Notify([type |-> "log", text |-> "TTS speaking..."])>>
    ELSE <<>>

\* Faulty variant of TTSOnStopped: no test of the speaking flag.
TTSOnStoppedUnguarded(self) ==
    <<Assign("is_speaking", FALSE),
      Notify([type |-> "status", status |-> "idle"]),
      Notify([type |-> "log", text |-> "Ready"])>>

\* The TTSStoppedFrame branch.
TTSOnStopped(self) ==
    IF self.is_speaking
    THEN <<Assign("is_speaking", FALSE),
           Notify([type |-> "status", status |-> "idle"]),
           Notify([type |-> "log", text |-> "Ready"])>>
    ELSE <<>>

\* Faulty variant of TTSOnSpeak: no test of the speaking flag.
TTSOnSpeakUnguarded(self, frame) ==
    <<Assign("is_speaking", TRUE),
      Notify([type |-> "status", status |-> "tts"]),
      Notify([type |-> "log", text |-> TTSLogText(frame.text)])>>

\* The TTSSpeakFrame branch.
TTSOnSpeak(self, frame) ==
    (IF ~self.is_speaking
     THEN <<Assign("is_speaking", TRUE),
            Notify([type |-> "status", status |-> "tts"])>>
     ELSE <<>>)
    \o <<Notify([type |-> "log", text |-> TTSLogText(frame.text)])>>

\* The body of TTSStatusProcessor.process_frame.
TTSProcessFrame(self, frame, direction) ==
    (IF IsInstance(frame, "StartInterruptionFrame")
     THEN TTSOnInterruption(self)
     ELSE IF IsInstance(frame, "TTSStartedFrame")
     THEN TTSOnStarted(self)
     ELSE IF IsInstance(frame, "TTSStoppedFrame")
     THEN TTSOnStopped(self)
     ELSE IF IsInstance(frame, "TTSSpeakFrame")
     THEN TTSOnSpeak(self, frame)
     ELSE <<>>)
    \o <<Forward(frame, direction)>>

TTSInputs ==
    {TTSStartedFrame, TTSStoppedFrame, StartInterruptionFrame}
    \cup {TTSSpeakFrame(t) : t \in TTSTexts}
    \cup OtherFrames

(***************************************************************************)
(* The state machine.                                                      *)
(***************************************************************************)
\* One record of a trace: the call's arguments, the instance before and
\* after the call, what the call pushed, and whether it raised.
Call(frame, direction, before, out) ==
    [frame |-> frame, direction |-> direction, before |-> before,
     after |-> out.self, pushed |-> out.pushed, raised |-> out.raised]

\* The session ids the server hands out.
SessionIds == {"s1"}

\* The connections server.offer starts a run_bot call for.
Connections == {1, 2}

\* run_bot constructs one observer of each class per session.
Init ==
    /\ stt_progress = STTInit
    /\ stt_trace = <<>>
    /\ llm_progress = LLMInit
    /\ llm_trace = <<>>
    /\ tts_status = TTSInit
    /\ tts_trace = <<>>
    /\ to_llm_progress = <<>>
    /\ to_tts_status = <<>>
    /\ client = <<>>
    /\ bots = [pc_id \in Connections |-> None]
    /\ bots_trace = <<>>
    /\ book_processor = None
    /\ book_trace = <<>>
    /\ web_searcher = None
    /\ search_trace = <<>>
    /\ sessions = [session_id \in SessionIds |-> None]
    /\ server_trace = <<>>
    /\ connections = {}
    /\ created = 0
    /\ pending = {}
    /\ background_tasks = <<>>
    /\ closed = {}
    /\ offer_trace = <<>>

\* Number of process_frame calls made so far.
Events == Len(stt_trace) + Len(llm_trace) + Len(tts_trace)

\* stt_progress.process_frame(frame, direction) runs to its end, or to the
\* failAt-th notification push, which raises.
STTHandle(frame, direction, ts, failAt) ==
    LET stmts == STTProcessFrame(stt_progress, frame, direction, ts)
        out == Run(stt_progress, stmts, failAt)
    IN /\ failAt <= NotifyCount(stmts)
       /\ stt_progress' = out.self
       /\ stt_trace' = Append(stt_trace, Call(frame, direction, stt_progress, out))
       /\ UNCHANGED <<llm_progress, llm_trace, tts_status, tts_trace, other_vars>>

\* llm_progress.process_frame(frame, direction), likewise.
LLMHandle(frame, direction, ts, failAt) ==
    LET stmts == LLMProcessFrame(llm_progress, frame, direction, ts)
        out == Run(llm_progress, stmts, failAt)
    IN /\ failAt <= NotifyCount(stmts)
       /\ llm_progress' = out.self
       /\ llm_trace' = Append(llm_trace, Call(frame, direction, llm_progress, out))
       /\ UNCHANGED <<stt_progress, stt_trace, tts_status, tts_trace, other_vars>>

\* tts_status.process_frame(frame, direction), likewise.
TTSHandle(frame, direction, failAt) ==
    LET stmts == TTSProcessFrame(tts_status, frame, direction)
        out == Run(tts_status, stmts, failAt)
    IN /\ failAt <= NotifyCount(stmts)
       /\ tts_status' = out.self
       /\ tts_trace' = Append(tts_trace, Call(frame, direction, tts_status, out))
       /\ UNCHANGED <<stt_progress, stt_trace, llm_progress, llm_trace, other_vars>>

\* A frame reaches stt_progress; every push_frame returns normally.
STTProcess ==
    /\ Len(stt_trace) < MaxEvents
    /\ \E frame \in STTInputs, direction \in Directions, ts \in Timestamps :
          STTHandle(frame, direction, ts, 0)

\* A frame reaches llm_progress; every push_frame returns normally.
LLMProcess ==
    /\ Len(llm_trace) < MaxEvents
    /\ \E frame \in LLMInputs, direction \in Directions, ts \in Timestamps :
          LLMHandle(frame, direction, ts, 0)

\* A frame reaches tts_status; every push_frame returns normally.
TTSProcess ==
    /\ Len(tts_trace) < MaxEvents
    /\ \E frame \in TTSInputs, direction \in Directions :
          TTSHandle(frame, direction, 0)

\* The observers share no attribute, so a run of the three is three runs
\* side by side; the run below drives whichever observer got the first frame.
STTAlone == llm_trace = <<>> /\ tts_trace = <<>> /\ STTProcess
LLMAlone == stt_trace = <<>> /\ tts_trace = <<>> /\ LLMProcess
TTSAlone == stt_trace = <<>> /\ llm_trace = <<>> /\ TTSProcess

Next == STTAlone \/ LLMAlone \/ TTSAlone

\* Any one observer, fed any sequence of frames.
Spec == Init /\ [][Next]_vars
\* Each observer, fed any sequence of frames.
SpecSTT == Init /\ [][STTProcess]_vars
SpecLLM == Init /\ [][LLMProcess]_vars
SpecTTS == Init /\ [][TTSProcess]_vars

\* The frames reach the three observers in any interleaving and a push_frame
\* of a notification may raise (failAt = 0: none does; no handler makes more
\* than five notification pushes).
FailPoints == 0..5

STTProcessSinkFail ==
    /\ Events < MaxSinkFailEvents
    /\ \E frame \in STTInputs, direction \in Directions, ts \in Timestamps,
          failAt \in FailPoints : STTHandle(frame, direction, ts, failAt)

LLMProcessSinkFail ==
    /\ Events < MaxSinkFailEvents
    /\ \E frame \in LLMInputs, direction \in Directions, ts \in Timestamps,
          failAt \in FailPoints : LLMHandle(frame, direction, ts, failAt)

TTSProcessSinkFail ==
    /\ Events < MaxSinkFailEvents
    /\ \E frame \in TTSInputs, direction \in Directions,
          failAt \in FailPoints : TTSHandle(frame, direction, failAt)

NextSinkFail == STTProcessSinkFail \/ LLMProcessSinkFail \/ TTSProcessSinkFail

SpecSinkFail == Init /\ [][NextSinkFail]_vars

(***************************************************************************)
(* The pipeline of run_bot: stt, stt_progress, context_aggregator.user(),  *)
(* llm, llm_progress, tts, tts_status, transport.output().  The stages     *)
(* between two observers are taken to hand OutputTransportMessageFrame     *)
(* frames on in the order they arrive; any other frame they hand on or     *)
(* keep.                                                                   *)
(***************************************************************************)
\* The frame run_bot queues when the client connects.
ConnectedFrame == OutputTransportMessageFrame([type |-> "status", status |-> "connected"])

\* The frames among pushed that travel downstream and reach the next
\* observer: every OutputTransportMessageFrame, and any other frame when the
\* stages in between hand it on.
RECURSIVE Downstream(_, _)
Downstream(pushed, handsOn) ==
    IF pushed = <<>> THEN <<>>
    ELSE (IF /\ Head(pushed).direction = DOWNSTREAM
             /\ (IsInstance(Head(pushed).frame, "OutputTransportMessageFrame")
                 \/ handsOn)
          THEN <<Head(pushed).frame>> ELSE <<>>)
         \o Downstream(Tail(pushed), handsOn)

\* The messages of the OutputTransportMessageFrame frames among frames.
RECURSIVE MessagesOf(_)
MessagesOf(frames) ==
    IF frames = <<>> THEN <<>>
    ELSE (IF IsInstance(Head(frames), "OutputTransportMessageFrame")
          THEN <<Head(frames).message>> ELSE <<>>)
         \o MessagesOf(Tail(frames))

\* What the services of the pipeline put into it.
STTServiceFrames == {InterimTranscriptionFrame("A"), TranscriptionFrame("A")}
LLMServiceFrames == {LLMFullResponseStartFrame, LLMTextFrame("A"), LLMFullResponseEndFrame}
TTSServiceFrames == {TTSStartedFrame, TTSStoppedFrame}

\* Number of frames of the given set in a link or a trace.
InLink(link, frames) == Cardinality({i \in 1..Len(link) : link[i] \in frames})
InTrace(trace, frames) == Cardinality({i \in 1..Len(trace) : trace[i].frame \in frames})

\* Frames the services and on_connected have put into the pipeline so far.
PipelineFrames ==
    Len(stt_trace)
    + InLink(to_llm_progress, LLMServiceFrames) + InTrace(llm_trace, LLMServiceFrames)
    + InLink(to_tts_status, TTSServiceFrames) + InTrace(tts_trace, TTSServiceFrames)

\* The frame queued by on_connected, or a frame of the stt service, reaches
\* stt_progress, whose downstream pushes go on towards llm_progress.
PipelineSTTProgress ==
    /\ PipelineFrames < MaxPipelineFrames
    /\ \E frame \in STTServiceFrames \cup {ConnectedFrame}, ts \in Timestamps,
          handsOn \in BOOLEAN :
          LET out == Run(stt_progress,
                         STTProcessFrame(stt_progress, frame, DOWNSTREAM, ts), 0)
          IN /\ stt_progress' = out.self
             /\ stt_trace' = Append(stt_trace, Call(frame, DOWNSTREAM, stt_progress, out))
             /\ to_llm_progress' = to_llm_progress \o Downstream(out.pushed, handsOn)
             /\ UNCHANGED <<llm_progress, llm_trace, tts_status, tts_trace,
                            to_tts_status, client, bots_vars, book_vars, search_vars, server_vars>>

\* The llm service pushes a frame of its response towards llm_progress.
PipelineLLMService ==
    /\ PipelineFrames < MaxPipelineFrames
    /\ \E frame \in LLMServiceFrames :
          to_llm_progress' = Append(to_llm_progress, frame)
    /\ UNCHANGED <<stt_progress, stt_trace, llm_progress, llm_trace, tts_status,
                   tts_trace, to_tts_status, client, bots_vars, book_vars, search_vars, server_vars>>

\* llm_progress takes the next frame; its downstream pushes go on towards
\* tts_status.
PipelineLLMProgress ==
    /\ to_llm_progress # <<>>
    /\ \E ts \in Timestamps, handsOn \in BOOLEAN :
          LET frame == Head(to_llm_progress)
              out == Run(llm_progress,
                         LLMProcessFrame(llm_progress, frame, DOWNSTREAM, ts), 0)
          IN /\ llm_progress' = out.self
             /\ llm_trace' = Append(llm_trace, Call(frame, DOWNSTREAM, llm_progress, out))
             /\ to_llm_progress' = Tail(to_llm_progress)
             /\ to_tts_status' = to_tts_status \o Downstream(out.pushed, handsOn)
             /\ UNCHANGED <<stt_progress, stt_trace, tts_status, tts_trace, client,
                            bots_vars, book_vars, search_vars, server_vars>>

\* The tts service pushes a frame towards tts_status.
PipelineTTSService ==
    /\ PipelineFrames < MaxPipelineFrames
    /\ \E frame \in TTSServiceFrames :
          to_tts_status' = Append(to_tts_status, frame)
    /\ UNCHANGED <<stt_progress, stt_trace, llm_progress, llm_trace, tts_status,
                   tts_trace, to_llm_progress, client, bots_vars, book_vars, search_vars, server_vars>>

\* tts_status takes the next frame; transport.output() sends the messages of
\* the OutputTransportMessageFrame frames it pushes to the client.
PipelineTTSStatus ==
    /\ to_tts_status # <<>>
    /\ LET frame == Head(to_tts_status)
           out == Run(tts_status, TTSProcessFrame(tts_status, frame, DOWNSTREAM), 0)
       IN /\ tts_status' = out.self
          /\ tts_trace' = Append(tts_trace, Call(frame, DOWNSTREAM, tts_status, out))
          /\ to_tts_status' = Tail(to_tts_status)
          /\ client' = client \o MessagesOf(Downstream(out.pushed, TRUE))
          /\ UNCHANGED <<stt_progress, stt_trace, llm_progress, llm_trace,
                         to_llm_progress, bots_vars, book_vars, search_vars, server_vars>>

NextPipeline ==
    \/ PipelineSTTProgress
    \/ PipelineLLMService
    \/ PipelineLLMProgress
    \/ PipelineTTSService
    \/ PipelineTTSStatus

\* The composed pipeline of one session.
SpecPipeline == Init /\ [][NextPipeline]_vars

(***************************************************************************)
(* BookProcessor (book_processor.py).  A file's content is modelled by its *)
(* length, the only thing of it the code reads.                            *)
(***************************************************************************)
\* BookProcessor.MAX_FILE_SIZE
MAX_FILE_SIZE == 10 * 1024 * 1024

\* str.lower() on ASCII letters.
UpperCase == "ABCDEFGHIJKLMNOPQRSTUVWXYZ"
LowerCase == "abcdefghijklmnopqrstuvwxyz"
LowerOf ==
    [c \in {SubSeq(UpperCase, i, i) : i \in 1..Len(UpperCase)} |->
        LET i == CHOOSE i \in 1..Len(UpperCase) : SubSeq(UpperCase, i, i) = c
        IN SubSeq(LowerCase, i, i)]
LowerChar(c) == IF c \in DOMAIN LowerOf THEN LowerOf[c] ELSE c
RECURSIVE Lower(_)
Lower(str) ==
    IF Len(str) = 0 THEN ""
    ELSE LowerChar(SubSeq(str, 1, 1)) \o Lower(SubSeq(str, 2, Len(str)))

\* str.endswith(suffix)
EndsWith(str, suffix) ==
    /\ Len(str) >= Len(suffix)
    /\ SubSeq(str, Len(str) - Len(suffix) + 1, Len(str)) = suffix

\* BookProcessor.__init__
BookProcessorInit(api_key) ==
    [api_key |-> api_key, file_info |-> None, file_uri |-> None, mime_type |-> None,
     book_title |-> None, temp_file_path |-> None]

\* BookProcessor.has_file
HasFile(self) == self.file_uri # None

\* BookProcessor.clear: the remote delete and the unlink each run inside a
\* try whose except clause only logs, so whether or not they fail the five
\* fields are then set to None.
Clear(self) ==
    [self EXCEPT !.file_info = None, !.file_uri = None, !.mime_type = None,
                 !.book_title = None, !.temp_file_path = None]

\* The outcome of a call: the instance after it, what it returned, and the
\* exception it raised.
Returned(self, result) == [self |-> self, result |-> Some(result), raised |-> None]
Raised(self, type, message) ==
    [self |-> self, result |-> None,
     raised |-> Some([type |-> type, message |-> message])]

\* Faulty variant of ClearCall: the remote delete and the unlink are made
\* outside any try, so a failure of either leaves clear at once.
ClearCallUncaught(self, deleteFails, unlinkFails) ==
    IF self.file_info # None /\ deleteFails
    THEN Raised(self, "Exception", "delete_file") @@ [deleted |-> FALSE, unlinked |-> FALSE]
    ELSE IF self.temp_file_path # None /\ unlinkFails
    THEN Raised(self, "OSError", "unlink")
         @@ [deleted |-> self.file_info # None, unlinked |-> FALSE]
    ELSE [self |-> Clear(self), result |-> None, raised |-> None,
          deleted |-> self.file_info # None, unlinked |-> self.temp_file_path # None]

\* A call of BookProcessor.clear: the remote file is deleted when one is
\* held, the temporary file is unlinked when one is held; deleteFails and
\* unlinkFails say which of the two raise.  deleted and unlinked tell whether
\* the file was in fact removed.
ClearCall(self, deleteFails, unlinkFails) ==
    [self |-> Clear(self), result |-> None, raised |-> None,
     deleted |-> self.file_info # None /\ ~deleteFails,
     unlinked |-> self.temp_file_path # None /\ ~unlinkFails]

\* Faulty variant of TooLarge: content of exactly MAX_FILE_SIZE is refused.
TooLargeInclusive(size) == size >= MAX_FILE_SIZE

\* len(file_content) > self.MAX_FILE_SIZE
TooLarge(size) == size > MAX_FILE_SIZE

\* filename.lower().endswith(".pdf") or filename.lower().endswith(".txt")
SupportedType(filename) ==
    EndsWith(Lower(filename), ".pdf") \/ EndsWith(Lower(filename), ".txt")

\* What file_api.upload_file answers for the n-th call on the processor.
UploadedInfo(n) ==
    [file |-> [uri |-> "https://files/" \o ToString(n), name |-> "files/" \o ToString(n)]]

\* What can fail in process_file after the validations: nothing, writing
\* the temporary file, or file_api.upload_file.
Failures == {"none", "tempfile", "upload_file"}

\* BookProcessor.process_file for content of the given size; n numbers the
\* call.
ProcessFile(self, size, filename, fails, n) ==
    IF TooLarge(size)
    THEN Raised(self, "ValueError",
                "File too large. Max size is "
                    \o ToString(MAX_FILE_SIZE \div (1024 * 1024)) \o "MB")
    ELSE IF ~SupportedType(filename)
    THEN Raised(self, "ValueError", "Only PDF and TXT files are supported")
    ELSE
      LET isPdf == EndsWith(Lower(filename), ".pdf")
          titled == [self EXCEPT !.book_title = Some(filename),
                                 !.mime_type = Some(IF isPdf THEN "application/pdf"
                                                    ELSE "text/plain")]
          suffix == IF isPdf THEN ".pdf" ELSE ".txt"
          saved == [titled EXCEPT !.temp_file_path = Some("tmp" \o ToString(n) \o suffix)]
          uploaded == [saved EXCEPT !.file_info = Some(UploadedInfo(n)),
                                    !.file_uri = Some(UploadedInfo(n).file.uri)]
      IN IF fails = "tempfile" THEN Raised(titled, "OSError", "temporary file")
         ELSE IF self.api_key = None
         THEN Raised(Clear(saved), "ValueError",
                     "GOOGLE_API_KEY is required for file uploads")
         ELSE IF fails = "upload_file"
         THEN Raised(Clear(saved), "Exception", "upload")
         ELSE Returned(uploaded,
                       [file_uri |-> uploaded.file_uri[1],
                        mime_type |-> uploaded.mime_type[1],
                        filename |-> filename,
                        file_name |-> UploadedInfo(n).file.name])

\* Lengths of content on both sides of the limit.
Sizes == {0, MAX_FILE_SIZE - 1, MAX_FILE_SIZE, MAX_FILE_SIZE + 1}

\* Filenames: .pdf and .txt in lower and mixed case, and names that end
\* otherwise.
PdfNames == {"book.pdf", "BOOK.PDF"}
TxtNames == {"notes.txt", "Notes.Txt"}
OtherNames == {"", "pdf", "book.pdf.exe", "unknown"}
Filenames == PdfNames \cup TxtNames \cup OtherNames

\* create_session constructs the BookProcessor of the session; the key comes
\* from the environment and may be missing.
BookProcessorNew ==
    /\ book_processor = None
    /\ \E api_key \in {None, Some("key")} :
          book_processor' = Some(BookProcessorInit(api_key))
    /\ UNCHANGED <<stt_progress, llm_progress, tts_status, stt_trace, llm_trace,
                   tts_trace, pipeline_vars, bots_vars, book_trace, search_vars, server_vars>>

\* process_file is called on the processor.
BookProcessFile ==
    /\ book_processor # None /\ Len(book_trace) < MaxBookCalls
    /\ \E size \in Sizes, filename \in Filenames, fails \in Failures :
          LET self == book_processor[1]
              out == ProcessFile(self, size, filename, fails, Len(book_trace) + 1)
          IN /\ book_processor' = Some(out.self)
             /\ book_trace' = Append(book_trace,
                    [op |-> "process_file", size |-> size, filename |-> filename,
                     before |-> self, after |-> out.self, result |-> out.result,
                     raised |-> out.raised])
    /\ UNCHANGED <<stt_progress, llm_progress, tts_status, stt_trace, llm_trace,
                   tts_trace, pipeline_vars, bots_vars, search_vars, server_vars>>

\* clear is called on the processor.
BookClear ==
    /\ book_processor # None /\ Len(book_trace) < MaxBookCalls
    /\ \E deleteFails, unlinkFails \in BOOLEAN :
          LET self == book_processor[1]
              out == ClearCall(self, deleteFails, unlinkFails)
          IN /\ book_processor' = Some(out.self)
             /\ book_trace' = Append(book_trace,
                    [op |-> "clear", before |-> self, after |-> out.self,
                     result |-> out.result, raised |-> out.raised,
                     deleteFails |-> deleteFails, unlinkFails |-> unlinkFails,
                     deleted |-> out.deleted, unlinked |-> out.unlinked])
    /\ UNCHANGED <<stt_progress, llm_progress, tts_status, stt_trace, llm_trace,
                   tts_trace, pipeline_vars, bots_vars, search_vars, server_vars>>

NextBook == BookProcessorNew \/ BookProcessFile \/ BookClear

\* One BookProcessor and the calls made on it.
SpecBook == Init /\ [][NextBook]_vars

(***************************************************************************)
(* The search_web tool (bot.py) and WebSearcher (web_search.py).           *)
(***************************************************************************)
\* Characters a snippet is cut to.
SnippetLen == 500

\* Texts of 500 and of 501 characters; the last character of the longer one
\* occurs nowhere else.
Text500 == Text50 \o Text50 \o Text50 \o Text50 \o Text50
           \o Text50 \o Text50 \o Text50 \o Text50 \o Text50
Text501 == Text500 \o "!"

\* WebSearcher.__init__; exa is whether the import of Exa succeeded.
WebSearcherInit(api_key, exa) == [api_key |-> api_key, exa |-> exa, client |-> None]

\* The client property: the Exa client is constructed on first use, when
\* Exa was imported and a key is set.
WithClient(self) ==
    IF self.client = None /\ self.exa /\ self.api_key # None
    THEN [self EXCEPT !.client = Some("Exa")]
    ELSE self

\* One result as WebSearcher.search returns it.
SearchResult(result) ==
    [title |-> result.title, url |-> result.url,
     text |-> IF result.text # None /\ result.text # ""
              THEN Prefix(result.text[1], SnippetLen) ELSE ""]

\* Faulty variant of Search: an exception of the search call is not caught.
SearchUncaught(self, response) ==
    IF WithClient(self).client = None
    THEN [self |-> WithClient(self), raised |-> None,
          results |-> <<[error |-> "Web search is not configured"]>>]
    ELSE IF response.raises # None
    THEN [self |-> WithClient(self), raised |-> response.raises, results |-> <<>>]
    ELSE [self |-> WithClient(self), raised |-> None,
          results |-> [i \in 1..Len(response.results) |->
                          SearchResult(response.results[i])]]

\* WebSearcher.search, given what client.search_and_contents does: it
\* raises, or answers with results.
Search(self, response) ==
    IF WithClient(self).client = None
    THEN [self |-> WithClient(self), raised |-> None,
          results |-> <<[error |-> "Web search is not configured"]>>]
    ELSE IF response.raises # None
    THEN [self |-> WithClient(self), raised |-> None,
          results |-> <<[error |-> response.raises[1]]>>]
    ELSE [self |-> WithClient(self), raised |-> None,
          results |-> [i \in 1..Len(response.results) |->
                          SearchResult(response.results[i])]]

\* "\n\n".join(formatted)
RECURSIVE Join(_)
Join(formatted) ==
    IF formatted = <<>> THEN ""
    ELSE IF Len(formatted) = 1 THEN formatted[1]
    ELSE formatted[1] \o "\n\n" \o Join(Tail(formatted))

\* WebSearcher.format_results_for_llm
FormatResultsForLLM(results) ==
    IF results = <<>> THEN "No results found."
    ELSE IF "error" \in DOMAIN results[1] THEN "Search error: " \o results[1].error
    ELSE Join([i \in 1..Len(results) |->
                  ToString(i) \o ". " \o results[i].title \o "\n"
                  \o "   URL: " \o results[i].url \o "\n"
                  \o "   " \o results[i].text])

\* search_web, from the searcher it finds: what it leaves in web_searcher,
\* the strings it passed to params.result_callback, and the exception it
\* raised.
SearchWeb(searcher, response) ==
    LET found == Search(searcher, response)
    IN IF found.raised # None
       THEN [self |-> found.self, callbacks |-> <<>>, raised |-> found.raised]
       ELSE [self |-> found.self, callbacks |-> <<FormatResultsForLLM(found.results)>>,
             raised |-> None]

\* What the search service holds for a page: its text may be missing, of
\* the snippet length, or longer.
PageTexts == {None, Some(Text500), Some(Text501)}
Pages == {[title |-> "T", url |-> "u", text |-> text] : text \in PageTexts}

\* Sequences of at most n pages.
RECURSIVE PagesUpTo(_)
PagesUpTo(n) ==
    IF n = 0 THEN {<<>>}
    ELSE PagesUpTo(n - 1)
         \cup {Append(pages, page) : pages \in {q \in PagesUpTo(n - 1) : Len(q) = n - 1},
                                     page \in Pages}

\* What client.search_and_contents may do.
Responses ==
    {[raises |-> Some("timeout"), results |-> <<>>]}
    \cup {[raises |-> None, results |-> pages] : pages \in PagesUpTo(MaxResults)}

\* The language model calls the search_web tool.  The first call constructs
\* the WebSearcher, with the key the environment holds or without one.
SearchWebCall ==
    /\ Len(search_trace) < MaxSearches
    /\ \E query \in {"q"}, response \in Responses,
          api_key \in {None, Some("key")}, exa \in BOOLEAN :
          LET searcher == IF web_searcher = None THEN WebSearcherInit(api_key, exa)
                          ELSE web_searcher[1]
              out == SearchWeb(searcher, response)
          IN /\ web_searcher' = Some(out.self)
             /\ search_trace' = Append(search_trace,
                    [query |-> query, response |-> response,
                     configured |-> out.self.client # None,
                     callbacks |-> out.callbacks, raised |-> out.raised])
    /\ UNCHANGED <<stt_progress, llm_progress, tts_status, stt_trace, llm_trace,
                   tts_trace, pipeline_vars, bots_vars, book_vars, server_vars>>

NextSearch == SearchWebCall

\* The search_web tool and the calls made of it.
SpecSearch == Init /\ [][NextSearch]_vars

(***************************************************************************)
(* The kinds of frame.                                                     *)
(***************************************************************************)
\* One frame of every kind that travels through the pipeline.
KindSamples ==
    {InterimTranscriptionFrame("A"), TranscriptionFrame("A"),
     LLMFullResponseStartFrame, LLMTextFrame("A"), LLMFullResponseEndFrame,
     TTSStartedFrame, TTSStoppedFrame, TTSSpeakFrame("A"), StartInterruptionFrame,
     ConnectedFrame}
    \cup OtherFrames

\* The kinds each process_frame tests for.
STTKinds == {"InterimTranscriptionFrame", "TranscriptionFrame"}
LLMKinds == {"LLMFullResponseStartFrame", "LLMTextFrame", "LLMFullResponseEndFrame"}
TTSKinds == {"StartInterruptionFrame", "TTSStartedFrame", "TTSStoppedFrame",
             "TTSSpeakFrame"}

\* The sample frames of the kinds an observer does not test for.
Unhandled(kinds) == {frame \in KindSamples : frame.kind \notin kinds}

\* The sample frames of the kinds an observer tests for.
Handled(kinds) == {frame \in KindSamples : frame.kind \in kinds}

(***************************************************************************)
(* Several connections, each with its own run_bot call.                    *)
(***************************************************************************)
\* What a run_bot call constructs: its three observers; channel is what they
\* have pushed towards the client of this connection.
NewBot ==
    [stt_progress |-> STTInit, llm_progress |-> LLMInit, tts_status |-> TTSInit,
     channel |-> <<>>]

\* Faulty variant of ObserversOf: one observer triple kept at module level
\* and used by every run_bot call.
ObserversOfModule(pc_id) == CHOOSE c \in Connections : bots[c] # None

\* The run_bot call whose observers handle the frames of connection pc_id:
\* the observers are local variables of that call.
ObserversOf(pc_id) == pc_id

\* server.offer starts run_bot for a new connection.
RunBot(pc_id) ==
    /\ bots[pc_id] = None
    /\ bots' = [bots EXCEPT ![pc_id] = NewBot]
    /\ UNCHANGED <<stt_progress, llm_progress, tts_status, stt_trace, llm_trace,
                   tts_trace, pipeline_vars, bots_trace, book_vars, search_vars, server_vars>>

\* A process_frame call returned out in the run_bot call of pc_id: the
\* observer named by field is the one that call holds, and the notifications
\* go to the client of pc_id.
BotHandled(pc_id, field, frame, out) ==
    LET own == ObserversOf(pc_id)
        updated == [bots EXCEPT ![own] = [@ EXCEPT ![field] = out.self]]
    IN /\ bots' = [updated EXCEPT ![pc_id] =
                      [@ EXCEPT !.channel = @ \o MessagesOf(Downstream(out.pushed, TRUE))]]
       /\ bots_trace' = Append(bots_trace,
                               [pc_id |-> pc_id, observer |-> field, frame |-> frame])
       /\ UNCHANGED <<stt_progress, llm_progress, tts_status, stt_trace, llm_trace,
                      tts_trace, pipeline_vars, book_vars, search_vars, server_vars>>

\* The observers a frame of connection pc_id is handled by.
Bot(pc_id) == bots[ObserversOf(pc_id)]

BotSTTProcess(pc_id) ==
    /\ bots[pc_id] # None /\ Len(bots_trace) < MaxBotEvents
    /\ \E frame \in Handled(STTKinds), ts \in Timestamps :
          BotHandled(pc_id, "stt_progress", frame,
                     Run(Bot(pc_id).stt_progress,
                         STTProcessFrame(Bot(pc_id).stt_progress, frame, DOWNSTREAM, ts), 0))

BotLLMProcess(pc_id) ==
    /\ bots[pc_id] # None /\ Len(bots_trace) < MaxBotEvents
    /\ \E frame \in Handled(LLMKinds), ts \in Timestamps :
          BotHandled(pc_id, "llm_progress", frame,
                     Run(Bot(pc_id).llm_progress,
                         LLMProcessFrame(Bot(pc_id).llm_progress, frame, DOWNSTREAM, ts), 0))

BotTTSProcess(pc_id) ==
    /\ bots[pc_id] # None /\ Len(bots_trace) < MaxBotEvents
    /\ \E frame \in Handled(TTSKinds) :
          BotHandled(pc_id, "tts_status", frame,
                     Run(Bot(pc_id).tts_status,
                         TTSProcessFrame(Bot(pc_id).tts_status, frame, DOWNSTREAM), 0))

NextBots ==
    \/ \E pc_id \in Connections : RunBot(pc_id)
    \/ \E pc_id \in Connections : BotSTTProcess(pc_id)
    \/ \E pc_id \in Connections : BotLLMProcess(pc_id)
    \/ \E pc_id \in Connections : BotTTSProcess(pc_id)

\* Two connections whose frames are handled in any interleaving.
SpecBots == Init /\ [][NextBots]_vars

(***************************************************************************)
(* llm_progress behind an llm service that keeps to its contract: every    *)
(* assistant turn is one LLMFullResponseStartFrame, any number of          *)
(* LLMTextFrame, one LLMFullResponseEndFrame.                              *)
(***************************************************************************)
\* A turn is open: the last frame given to llm_progress is not an
\* LLMFullResponseEndFrame.
TurnOpen ==
    /\ llm_trace # <<>>
    /\ llm_trace[Len(llm_trace)].frame # LLMFullResponseEndFrame

\* The llm service starts a turn.
LLMTurnStart ==
    /\ Len(llm_trace) < MaxTurnEvents /\ ~TurnOpen
    /\ \E ts \in Timestamps : LLMHandle(LLMFullResponseStartFrame, DOWNSTREAM, ts, 0)

\* The llm service streams a chunk of the open turn.
LLMTurnText ==
    /\ Len(llm_trace) < MaxTurnEvents /\ TurnOpen
    /\ \E text \in Texts, ts \in Timestamps :
          LLMHandle(LLMTextFrame(text), DOWNSTREAM, ts, 0)

\* The llm service ends the open turn.
LLMTurnEnd ==
    /\ Len(llm_trace) < MaxTurnEvents /\ TurnOpen
    /\ \E ts \in Timestamps : LLMHandle(LLMFullResponseEndFrame, DOWNSTREAM, ts, 0)

NextLLMTurns == LLMTurnStart \/ LLMTurnText \/ LLMTurnEnd

\* llm_progress given whole assistant turns, one after the other.
SpecLLMTurns == Init /\ [][NextLLMTurns]_vars

(***************************************************************************)
(* The session requests of the server (server.py): create_session,         *)
(* upload_book and clear_book.  The record of a session holds its          *)
(* BookProcessor and the server's own file_uri, mime_type and book_title.  *)
(***************************************************************************)
\* The record create_session stores for a new session.
SessionInit(api_key) ==
    [book_processor |-> BookProcessorInit(api_key), file_uri |-> None,
     mime_type |-> None, book_title |-> None]

\* What a handler leaves behind: the session record and the HTTP status.
Responded(session, status) == [session |-> session, status |-> status]

\* upload_book on an existing session: file_filename is file.filename, which
\* may be missing; n numbers the request.
UploadBook(session, file_filename, size, fails, n) ==
    LET filename == IF file_filename = None \/ file_filename = Some("")
                    THEN "unknown" ELSE file_filename[1]
    IN IF ~SupportedType(filename)
       THEN Responded(session, 400)
       ELSE
         LET out == ProcessFile(session.book_processor, size, filename, fails, n)
             held == [session EXCEPT !.book_processor = out.self]
         IN IF out.raised = None
            THEN Responded([held EXCEPT !.file_uri = Some(out.result[1].file_uri),
                                        !.mime_type = Some(out.result[1].mime_type),
                                        !.book_title = Some(out.result[1].filename)],
                           200)
            ELSE IF out.raised[1].type = "ValueError"
            THEN Responded(held, 400)
            ELSE Responded(held, 500)

\* clear_book on an existing session.
ClearBook(session, deleteFails, unlinkFails) ==
    LET out == ClearCall(session.book_processor, deleteFails, unlinkFails)
    IN Responded([session EXCEPT !.book_processor = out.self, !.file_uri = None,
                                 !.mime_type = None, !.book_title = None],
                 200)

\* Names and lengths of the files a client uploads.
UploadFilenames == {None, Some("book.pdf"), Some("notes.txt")}
UploadSizes == {MAX_FILE_SIZE, MAX_FILE_SIZE + 1}

\* A request on session_id completed: before and after are sessions[session_id].
Requested(op, session_id, request, before, after, status) ==
    /\ sessions' = [sessions EXCEPT ![session_id] = after]
    /\ server_trace' = Append(server_trace,
                              [op |-> op, session_id |-> session_id, request |-> request,
                               before |-> before, after |-> after, status |-> status])
    /\ UNCHANGED <<stt_progress, llm_progress, tts_status, stt_trace, llm_trace,
                   tts_trace, pipeline_vars, bots_vars, book_vars, search_vars,
                   offer_vars>>

\* POST /api/session: a fresh id, a BookProcessor with the key of the
\* environment, which may be missing.
CreateSession ==
    /\ Len(server_trace) < MaxRequests
    /\ \E session_id \in SessionIds, api_key \in {None, Some("key")} :
          /\ sessions[session_id] = None
          /\ Requested("create_session", session_id, <<>>, None,
                       Some(SessionInit(api_key)), 200)

\* POST /api/session/{session_id}/upload-book
UploadBookRequest ==
    /\ Len(server_trace) < MaxRequests
    /\ \E session_id \in SessionIds, file_filename \in UploadFilenames,
          size \in UploadSizes, fails \in Failures :
          LET request == <<file_filename, size, fails>>
              before == sessions[session_id]
          IN IF before = None
             THEN Requested("upload_book", session_id, request, before, before, 404)
             ELSE LET out == UploadBook(before[1], file_filename, size, fails,
                                        Len(server_trace) + 1)
                  IN Requested("upload_book", session_id, request, before,
                               Some(out.session), out.status)

\* POST /api/session/{session_id}/clear-book
ClearBookRequest ==
    /\ Len(server_trace) < MaxRequests
    /\ \E session_id \in SessionIds, deleteFails, unlinkFails \in BOOLEAN :
          LET request == <<deleteFails, unlinkFails>>
              before == sessions[session_id]
          IN IF before = None
             THEN Requested("clear_book", session_id, request, before, before, 404)
             ELSE LET out == ClearBook(before[1], deleteFails, unlinkFails)
                  IN Requested("clear_book", session_id, request, before,
                               Some(out.session), out.status)

NextSessions == CreateSession \/ UploadBookRequest \/ ClearBookRequest

SpecSessions == Init /\ [][NextSessions]_vars

(***************************************************************************)
(* The WebRTC offers of the server (server.offer).  A connection object is *)
(* named by its pc_id, which the library chooses when the object is        *)
(* constructed; the n-th object constructed has pc_id n.  An offer call    *)
(* tests the map, waits in renegotiate or initialize, and then runs to its *)
(* end without waiting again; other offers and closed events come in       *)
(* between.                                                                *)
(***************************************************************************)
\* Faulty variant of InConnections: the map is not consulted, every offer
\* takes the branch of a new connection.
InConnectionsNever(pc_id) == FALSE

\* `pc_id and pc_id in connections`
InConnections(pc_id) == pc_id # None /\ pc_id[1] \in connections

\* The pc_id of a request: missing, or one a client may have been given.
RequestPcIds == {None} \cup {Some(c) : c \in 1..MaxOffers}

\* Offer calls begun so far.
OffersBegun ==
    Cardinality(pending)
        + Cardinality({i \in 1..Len(offer_trace) : offer_trace[i].op = "offer"})

\* How often run_bot was scheduled for connection c.
Scheduled(tasks, c) == Cardinality({i \in 1..Len(tasks) : tasks[i] = c})

\* offer up to its await: the test of the map, then renegotiate on the
\* connection found or initialize on one newly constructed.  present notes
\* whether the map held the pc_id of the request when it was tested.
OfferBegin ==
    /\ OffersBegun < MaxOffers
    /\ \E pc_id \in RequestPcIds :
          LET present == pc_id # None /\ pc_id[1] \in connections
              call == [call |-> OffersBegun + 1, pc_id |-> pc_id, present |-> present]
          IN IF InConnections(pc_id)
             THEN /\ pending' = pending \cup
                        {call @@ [branch |-> "renegotiate", conn |-> pc_id[1]]}
                  /\ UNCHANGED created
             ELSE /\ pending' = pending \cup
                        {call @@ [branch |-> "initialize", conn |-> created + 1]}
                  /\ created' = created + 1
    /\ UNCHANGED <<stt_progress, llm_progress, tts_status, stt_trace, llm_trace,
                   tts_trace, pipeline_vars, bots_vars, book_vars, search_vars,
                   session_vars, connections, background_tasks, closed, offer_trace>>

\* renegotiate or initialize returned: for a new connection the closed
\* handler is registered and run_bot is scheduled; the connection is stored
\* under the pc_id of its answer.
OfferReturn ==
    /\ \E call \in pending :
          LET tasks == IF call.branch = "initialize"
                       THEN Append(background_tasks, call.conn)
                       ELSE background_tasks
          IN /\ pending' = pending \ {call}
             /\ background_tasks' = tasks
             /\ connections' = connections \cup {call.conn}
             /\ offer_trace' = Append(offer_trace,
                    call @@ [op |-> "offer", raised |-> FALSE,
                             tasks_before |-> background_tasks, tasks_after |-> tasks,
                             connections_after |-> connections \cup {call.conn}])
    /\ UNCHANGED <<stt_progress, llm_progress, tts_status, stt_trace, llm_trace,
                   tts_trace, pipeline_vars, bots_vars, book_vars, search_vars,
                   session_vars, created, closed>>

\* renegotiate or initialize raised: offer ends there.
OfferRaise ==
    /\ \E call \in pending :
          /\ pending' = pending \ {call}
          /\ offer_trace' = Append(offer_trace,
                 call @@ [op |-> "offer", raised |-> TRUE,
                          tasks_before |-> background_tasks,
                          tasks_after |-> background_tasks,
                          connections_after |-> connections])
    /\ UNCHANGED <<stt_progress, llm_progress, tts_status, stt_trace, llm_trace,
                   tts_trace, pipeline_vars, bots_vars, book_vars, search_vars,
                   session_vars, connections, created, background_tasks, closed>>

\* The closed event of a connection whose handler is registered:
\* handle_closed pops its pc_id.
ConnectionClosed ==
    /\ \E c \in 1..created :
          /\ Scheduled(background_tasks, c) > 0
          /\ c \notin closed
          /\ closed' = closed \cup {c}
          /\ connections' = connections \ {c}
          /\ offer_trace' = Append(offer_trace,
                 [op |-> "closed", conn |-> c, connections_before |-> connections,
                  connections_after |-> connections \ {c}])
    /\ UNCHANGED <<stt_progress, llm_progress, tts_status, stt_trace, llm_trace,
                   tts_trace, pipeline_vars, bots_vars, book_vars, search_vars,
                   session_vars, created, pending, background_tasks>>

NextOffers == OfferBegin \/ OfferReturn \/ OfferRaise \/ ConnectionClosed

SpecOffers == Init /\ [][NextOffers]_vars

(***************************************************************************)
(* A session in which frames of every kind reach every observer.           *)
(***************************************************************************)
STTSessionProcess ==
    /\ Events < MaxSessionEvents
    /\ \E frame \in STTInputs \cup Unhandled(STTKinds), direction \in Directions,
          ts \in Timestamps : STTHandle(frame, direction, ts, 0)

LLMSessionProcess ==
    /\ Events < MaxSessionEvents
    /\ \E frame \in LLMInputs \cup Unhandled(LLMKinds), direction \in Directions,
          ts \in Timestamps : LLMHandle(frame, direction, ts, 0)

TTSSessionProcess ==
    /\ Events < MaxSessionEvents
    /\ \E frame \in TTSInputs \cup Unhandled(TTSKinds), direction \in Directions :
          TTSHandle(frame, direction, 0)

NextSession == STTSessionProcess \/ LLMSessionProcess \/ TTSSessionProcess

\* The three observers of one session, in any interleaving, each given frames
\* of the kinds it tests for and of the kinds it does not.
SpecSession == Init /\ [][NextSession]_vars

(***************************************************************************)
(* Reading a trace.                                                        *)
(***************************************************************************)
\* The messages of the notifications a call pushed, in order.
RECURSIVE MsgsOf(_)
MsgsOf(pushed) ==
    IF pushed = <<>> THEN <<>>
    ELSE (IF Head(pushed).by = "notify" THEN <<Head(pushed).frame.message>> ELSE <<>>)
         \o MsgsOf(Tail(pushed))
Msgs(call) == MsgsOf(call.pushed)

\* Everything an observer pushed, over all its calls, in order.
RECURSIVE PushedStream(_)
PushedStream(trace) ==
    IF trace = <<>> THEN <<>> ELSE Head(trace).pushed \o PushedStream(Tail(trace))

\* The pass-through pushes of a stream, as <<frame, direction>> pairs.
RECURSIVE ForwardedOf(_)
ForwardedOf(pushed) ==
    IF pushed = <<>> THEN <<>>
    ELSE (IF Head(pushed).by = "forward"
          THEN <<(<<Head(pushed).frame, Head(pushed).direction>>)>> ELSE <<>>)
         \o ForwardedOf(Tail(pushed))

\* The frames an observer was given, as <<frame, direction>> pairs.
InputsOf(trace) == [i \in 1..Len(trace) |-> <<trace[i].frame, trace[i].direction>>]

\* Number of messages of a type in a sequence of messages.
CountType(msgs, type) == Cardinality({i \in 1..Len(msgs) : msgs[i].type = type})
\* Number of status messages of a value in a sequence of messages.
CountStatus(msgs, status) ==
    Cardinality({i \in 1..Len(msgs) : msgs[i].type = "status" /\ msgs[i].status = status})

IsStatus(m, status) == m.type = "status" /\ m.status = status
IsStatusWithText(m, status, text) ==
    IsStatus(m, status) /\ "text" \in DOMAIN m /\ m.text = text
IsLog(m, text) == m.type = "log" /\ m.text = text
IsLogStarting(m, prefix) == m.type = "log" /\ Prefix(m.text, Len(prefix)) = prefix
IsTranscript(m, role, text, final, id) ==
    /\ m.type = "transcript" /\ m.role = role /\ m.text = text /\ m.final = final
    /\ "messageId" \in DOMAIN m /\ m.messageId = id

Kind(call) == call.frame.kind

(***************************************************************************)
(* C1.                                                                     *)
(***************************************************************************)
ForwardsExactly(trace) == ForwardedOf(PushedStream(trace)) = InputsOf(trace)

\* C1: for each of the three observers and every input sequence, the frames
\* the observer passes through to the next stage are the frames it was given:
\* the same frames with the same payloads and direction, in the same order,
\* none dropped and none duplicated, whatever notifications were pushed.
C1_ForwardingInvariant ==
    /\ ForwardsExactly(stt_trace)
    /\ ForwardsExactly(llm_trace)
    /\ ForwardsExactly(tts_trace)

\* C1 witness: an observer that has been given four frames, upstream and
\* downstream ones, and has pushed notifications in between.
C1_Witness ==
    /\ Len(tts_trace) = 4
    /\ \E i, j \in 1..4 : /\ tts_trace[i].direction = UPSTREAM
                          /\ tts_trace[j].direction = DOWNSTREAM
                          /\ Len(Msgs(tts_trace[i])) = 2
                          /\ Len(Msgs(tts_trace[j])) = 1
    /\ Len(PushedStream(tts_trace)) > 6

(***************************************************************************)
(* C2.                                                                     *)
(***************************************************************************)
\* C2: every TranscriptionFrame{text} increases the user message counter by
\* exactly one and makes stt_progress push exactly five notifications, in
\* this order: status stt carrying the text, the log of the STT preview, the
\* transcript (role user, the text, final, messageId = the new counter
\* value), status llm, the log "Sending to LLM...".
C2_FinalTranscriptNotifications ==
    \A i \in 1..Len(stt_trace) :
        LET c == stt_trace[i]
            m == Msgs(c)
        IN Kind(c) = "TranscriptionFrame" =>
              /\ c.after.user_message_id = c.before.user_message_id + 1
              /\ Len(m) = 5
              /\ IsStatusWithText(m[1], "stt", c.frame.text)
              /\ IsLogStarting(m[2], "STT: \"")
              /\ IsTranscript(m[3], "user", c.frame.text, TRUE, c.after.user_message_id)
              /\ IsStatus(m[4], "llm") /\ "text" \notin DOMAIN m[4]
              /\ IsLog(m[5], "Sending to LLM...")

\* The same with the text of the first notification left open: a status stt
\* that carries the text when it is not empty and no text field when it is.
C2_FinalTranscriptNotificationsNonEmpty ==
    \A i \in 1..Len(stt_trace) :
        LET c == stt_trace[i]
            m == Msgs(c)
        IN Kind(c) = "TranscriptionFrame" =>
              /\ c.after.user_message_id = c.before.user_message_id + 1
              /\ Len(m) = 5
              /\ IF c.frame.text # ""
                 THEN IsStatusWithText(m[1], "stt", c.frame.text)
                 ELSE m[1] = [type |-> "status", status |-> "stt"]
              /\ IsLogStarting(m[2], "STT: \"")
              /\ IsTranscript(m[3], "user", c.frame.text, TRUE, c.after.user_message_id)
              /\ IsStatus(m[4], "llm") /\ "text" \notin DOMAIN m[4]
              /\ IsLog(m[5], "Sending to LLM...")

(***************************************************************************)
(* C3.                                                                     *)
(***************************************************************************)
\* Call s of the trace is the LLMFullResponseStartFrame of the turn call i
\* belongs to: no other start and no end lies between them.
TurnOf(trace, s, i) ==
    /\ s < i
    /\ Kind(trace[s]) = "LLMFullResponseStartFrame"
    /\ \A k \in (s + 1)..(i - 1) :
          Kind(trace[k]) \notin {"LLMFullResponseStartFrame", "LLMFullResponseEndFrame"}

\* c1 \o ... \o ci: the texts of the LLMTextFrame calls s+1..i, concatenated.
RECURSIVE ChunksText(_, _, _)
ChunksText(trace, s, i) ==
    IF i <= s THEN ""
    ELSE ChunksText(trace, s, i - 1)
         \o (IF Kind(trace[i]) = "LLMTextFrame" THEN trace[i].frame.text ELSE "")

\* C3: in a turn Start, Chunk(c1), ..., Chunk(cn), End, the i-th chunk makes
\* llm_progress push exactly one transcript, role assistant and not final,
\* whose text is c1..ci (the snapshot, not the chunk); on End a non-empty
\* text is pushed once more as the final transcript and the log
\* "Sending to TTS..." comes last; every transcript of the turn carries the
\* messageId the turn's Start set.
C3_TurnSnapshots ==
    \A i \in 1..Len(llm_trace) : \A s \in 1..Len(llm_trace) :
        TurnOf(llm_trace, s, i) =>
            LET c == llm_trace[i]
                m == Msgs(c)
                id == llm_trace[s].after.assistant_message_id
            IN /\ Kind(c) = "LLMTextFrame" =>
                     /\ CountType(m, "transcript") = 1
                     /\ Len(m) = 1
                     /\ IsTranscript(m[1], "assistant", ChunksText(llm_trace, s, i),
                                     FALSE, id)
               /\ Kind(c) = "LLMFullResponseEndFrame" =>
                     /\ IsLog(m[Len(m)], "Sending to TTS...")
                     /\ ChunksText(llm_trace, s, i) # "" =>
                           /\ CountType(m, "transcript") = 1
                           /\ IsTranscript(m[1], "assistant",
                                           ChunksText(llm_trace, s, i), TRUE, id)

\* C3 witness: the turn Start, Chunk("A"), Chunk("B"), End has been handled and
\* the transcripts pushed were "A", "AB" (not final) and "AB" (final), all
\* with messageId 1.
C3_Witness ==
    /\ Len(llm_trace) = 4
    /\ [i \in 1..4 |-> llm_trace[i].frame] =
          <<LLMFullResponseStartFrame, LLMTextFrame("A"), LLMTextFrame("B"),
            LLMFullResponseEndFrame>>
    /\ IsTranscript(Msgs(llm_trace[2])[1], "assistant", "A", FALSE, 1)
    /\ IsTranscript(Msgs(llm_trace[3])[1], "assistant", "AB", FALSE, 1)
    /\ IsTranscript(Msgs(llm_trace[4])[1], "assistant", "AB", TRUE, 1)
    /\ IsLog(Msgs(llm_trace[4])[3], "Sending to TTS...")

(***************************************************************************)
(* C4.                                                                     *)
(***************************************************************************)
\* The row of the transition table for a call of tts_status: the
\* notifications it pushes and the flag it leaves.
TableRow(c) ==
    LET m == Msgs(c)
        speaking == c.before.is_speaking
        next == c.after.is_speaking
    IN CASE Kind(c) = "TTSStartedFrame" /\ ~speaking ->
                /\ Len(m) = 2 /\ m[1] = [type |-> "status", status |-> "tts"]
                /\ IsLog(m[2], "TTS speaking...") /\ next
         [] Kind(c) = "TTSSpeakFrame" /\ ~speaking ->
                /\ Len(m) = 2 /\ m[1] = [type |-> "status", status |-> "tts"]
                /\ IsLogStarting(m[2], "TTS: \"") /\ next
         [] Kind(c) = "TTSSpeakFrame" /\ speaking ->
                /\ Len(m) = 1 /\ IsLogStarting(m[1], "TTS: \"") /\ next
         [] Kind(c) = "TTSStoppedFrame" /\ speaking ->
                /\ Len(m) = 2 /\ m[1] = [type |-> "status", status |-> "idle"]
                /\ IsLog(m[2], "Ready") /\ ~next
         [] Kind(c) = "StartInterruptionFrame" /\ speaking ->
                /\ Len(m) = 2 /\ m[1] = [type |-> "status", status |-> "idle"]
                /\ IsLog(m[2], "Interrupted by user") /\ ~next
         [] Kind(c) \in {"TTSStoppedFrame", "StartInterruptionFrame"} /\ ~speaking ->
                m = <<>> /\ ~next
         [] Kind(c) = "TTSStartedFrame" /\ speaking ->
                m = <<>> /\ next
         [] OTHER -> TRUE

\* C4: every call of tts_status follows the transition table over the
\* speaking flag, in all seven (flag, frame) pairs: the notifications pushed,
\* their order, and the flag afterwards.
C4_TransitionTable ==
    \A i \in 1..Len(tts_trace) : TableRow(tts_trace[i])

\* C4 witness: four rows of the table have been taken in one run: a chunk that
\* starts speaking, a chunk while speaking, an interruption while speaking,
\* and a stop while idle.
C4_Witness ==
    /\ Len(tts_trace) = 4
    /\ [i \in 1..4 |-> Kind(tts_trace[i])] =
          <<"TTSSpeakFrame", "TTSSpeakFrame", "StartInterruptionFrame", "TTSStoppedFrame">>
    /\ [i \in 1..4 |-> Len(Msgs(tts_trace[i]))] = <<2, 1, 2, 0>>
    /\ ~tts_status.is_speaking

(***************************************************************************)
(* C5.                                                                     *)
(***************************************************************************)
EndsSpeech(c) == Kind(c) \in {"StartInterruptionFrame", "TTSStoppedFrame"}
StartsSpeech(c) == Kind(c) \in {"TTSStartedFrame", "TTSSpeakFrame"}

\* C5: while the speaking flag is set, the first of StartInterruptionFrame
\* and TTSStoppedFrame to arrive (call i) pushes exactly one status idle;
\* the other one arriving later (call j) with no TTSStartedFrame or
\* TTSSpeakFrame in between pushes no notification and leaves the flag
\* false.
C5_NoDuplicateIdle ==
    \A i \in 1..Len(tts_trace) : \A j \in 1..Len(tts_trace) :
        ( /\ i < j
          /\ tts_trace[i].before.is_speaking
          /\ EndsSpeech(tts_trace[i])
          /\ EndsSpeech(tts_trace[j])
          /\ \A k \in (i + 1)..(j - 1) : ~StartsSpeech(tts_trace[k]) )
        => /\ CountStatus(Msgs(tts_trace[i]), "idle") = 1
           /\ CountType(Msgs(tts_trace[i]), "status") = 1
           /\ Msgs(tts_trace[j]) = <<>>
           /\ ~tts_trace[j].before.is_speaking
           /\ ~tts_trace[j].after.is_speaking

\* C5 witness: speaking, then an interruption that pushed status idle, then
\* (after a frame of another kind) a late TTSStoppedFrame that pushed nothing.
C5_Witness ==
    /\ Len(tts_trace) = 4
    /\ [i \in 1..4 |-> Kind(tts_trace[i])] =
          <<"TTSStartedFrame", "StartInterruptionFrame", "Frame", "TTSStoppedFrame">>
    /\ CountStatus(Msgs(tts_trace[2]), "idle") = 1
    /\ Msgs(tts_trace[4]) = <<>>

(***************************************************************************)
(* C6.                                                                     *)
(***************************************************************************)
\* The call passed its frame through, as the last thing it pushed, and
\* returned normally.
ForwardedAndReturned(c) ==
    /\ ~c.raised
    /\ c.pushed # <<>>
    /\ c.pushed[Len(c.pushed)] =
          [frame |-> c.frame, direction |-> c.direction, by |-> "forward"]

\* C6: when the push of a notification raises, the observer still passes the
\* frame it was given through to the next stage and the exception does not
\* leave process_frame; for the three observers and every branch that pushes
\* a notification.
C6_ForwardDespiteSinkFailure ==
    /\ \A i \in 1..Len(stt_trace) : ForwardedAndReturned(stt_trace[i])
    /\ \A i \in 1..Len(llm_trace) : ForwardedAndReturned(llm_trace[i])
    /\ \A i \in 1..Len(tts_trace) : ForwardedAndReturned(tts_trace[i])

(***************************************************************************)
(* C7.                                                                     *)
(***************************************************************************)
\* The messageId values carried by the transcripts of a role that the calls
\* 1..n of a trace pushed.
IdsCarried(trace, n, role) ==
    UNION {LET msgs == Msgs(trace[k])
           IN {msgs[x].messageId :
                  x \in {x \in 1..Len(msgs) : /\ msgs[x].type = "transcript"
                                              /\ msgs[x].role = role}}
           : k \in 1..n}

\* C7: neither message counter ever decreases, and the value a
\* TranscriptionFrame (user) or an LLMFullResponseStartFrame (assistant) is
\* given is greater than every messageId a transcript of that role carried
\* before, so no messageId is used for two logical messages.
C7_CountersMonotonic ==
    /\ \A i \in 1..Len(stt_trace) :
          /\ stt_trace[i].after.user_message_id >= stt_trace[i].before.user_message_id
          /\ Kind(stt_trace[i]) = "TranscriptionFrame" =>
                \A id \in IdsCarried(stt_trace, i - 1, "user") :
                    stt_trace[i].after.user_message_id > id
    /\ \A i \in 1..Len(llm_trace) :
          /\ llm_trace[i].after.assistant_message_id
                >= llm_trace[i].before.assistant_message_id
          /\ Kind(llm_trace[i]) = "LLMFullResponseStartFrame" =>
                \A id \in IdsCarried(llm_trace, i - 1, "assistant") :
                    llm_trace[i].after.assistant_message_id > id

\* C7 witness: three user utterances were finalized, with interim
\* transcriptions in between, and their transcripts carry 1, 2 and 3.
C7_Witness ==
    /\ Len(stt_trace) = 4
    /\ IdsCarried(stt_trace, 4, "user") = {1, 2, 3}
    /\ stt_progress.user_message_id = 3

(***************************************************************************)
(* C8.                                                                     *)
(***************************************************************************)
\* C8: every InterimTranscriptionFrame makes stt_progress push exactly one
\* notification, a status listening, and leaves the user message counter
\* as it was.
C8_InterimOnlyListening ==
    \A i \in 1..Len(stt_trace) :
        Kind(stt_trace[i]) = "InterimTranscriptionFrame" =>
            /\ Len(Msgs(stt_trace[i])) = 1
            /\ IsStatus(Msgs(stt_trace[i])[1], "listening")
            /\ stt_trace[i].after.user_message_id = stt_trace[i].before.user_message_id

\* C8 witness: after one finalized utterance, three interim transcriptions in
\* a row, each answered by one status listening, the counter still 1.
C8_Witness ==
    /\ Len(stt_trace) = 4
    /\ [i \in 1..4 |-> Kind(stt_trace[i])] =
          <<"TranscriptionFrame", "InterimTranscriptionFrame",
            "InterimTranscriptionFrame", "InterimTranscriptionFrame">>
    /\ \A i \in 2..4 : Len(Msgs(stt_trace[i])) = 1
    /\ stt_progress.user_message_id = 1

(***************************************************************************)
(* C9.                                                                     *)
(***************************************************************************)
\* C9: a second LLMFullResponseStartFrame (call j) with no
\* LLMFullResponseEndFrame since the previous one (call i) empties the
\* accumulated text and increments the assistant counter again, pushing no
\* transcript for the text it discards; the first chunk after it (call k) is
\* answered by a transcript holding that chunk's text alone, with the new
\* messageId.
C9_RestartDiscards ==
    \A i \in 1..Len(llm_trace) : \A j \in 1..Len(llm_trace) :
        ( /\ TurnOf(llm_trace, i, j)
          /\ Kind(llm_trace[j]) = "LLMFullResponseStartFrame" )
        => /\ llm_trace[j].after.assistant_text = ""
           /\ llm_trace[j].after.assistant_message_id
                 = llm_trace[j].before.assistant_message_id + 1
           /\ llm_trace[j].after.assistant_message_id
                 > llm_trace[i].after.assistant_message_id
           /\ CountType(Msgs(llm_trace[j]), "transcript") = 0
           /\ \A k \in (j + 1)..Len(llm_trace) :
                 ( /\ Kind(llm_trace[k]) = "LLMTextFrame"
                   /\ \A x \in (j + 1)..(k - 1) :
                         Kind(llm_trace[x]) \notin {"LLMTextFrame",
                                                    "LLMFullResponseStartFrame"} )
                 => /\ Len(Msgs(llm_trace[k])) = 1
                    /\ IsTranscript(Msgs(llm_trace[k])[1], "assistant",
                                    llm_trace[k].frame.text, FALSE,
                                    llm_trace[j].after.assistant_message_id)

\* C9 witness: Start, Chunk("A"), Start, Chunk("B"): the text "A" was never
\* flushed, and the last transcript holds "B" alone with messageId 2.
C9_Witness ==
    /\ Len(llm_trace) = 4
    /\ [i \in 1..4 |-> llm_trace[i].frame] =
          <<LLMFullResponseStartFrame, LLMTextFrame("A"), LLMFullResponseStartFrame,
            LLMTextFrame("B")>>
    /\ llm_trace[3].before.assistant_text = "A"
    /\ IsTranscript(Msgs(llm_trace[4])[1], "assistant", "B", FALSE, 2)

(***************************************************************************)
(* C10.                                                                    *)
(***************************************************************************)
\* C10: on every LLMFullResponseEndFrame, a non-empty accumulated text makes
\* llm_progress push the final transcript (role assistant, the accumulated
\* text, the current counter as messageId) and then the log
\* "LLM complete: <n> chars" with n the length of that text; an empty one
\* makes it push neither; in both cases the log "Sending to TTS..." is
\* pushed last and the accumulated text is empty afterwards.
C10_GenerationEnded ==
    \A i \in 1..Len(llm_trace) :
        LET c == llm_trace[i]
            m == Msgs(c)
            text == c.before.assistant_text
        IN Kind(c) = "LLMFullResponseEndFrame" =>
              /\ c.after.assistant_text = ""
              /\ c.after.assistant_message_id = c.before.assistant_message_id
              /\ IF text # ""
                 THEN /\ Len(m) = 3
                      /\ IsTranscript(m[1], "assistant", text, TRUE,
                                      c.before.assistant_message_id)
                      /\ IsLog(m[2], "LLM complete: " \o ToString(Len(text)) \o " chars")
                      /\ IsLog(m[3], "Sending to TTS...")
                 ELSE /\ Len(m) = 1
                      /\ IsLog(m[1], "Sending to TTS...")

\* C10 witness: an End with the text "BA" accumulated (final transcript and
\* "LLM complete: 2 chars"), then an End with nothing accumulated (only
\* "Sending to TTS...").
C10_Witness ==
    /\ Len(llm_trace) = 4
    /\ [i \in 1..4 |-> llm_trace[i].frame] =
          <<LLMTextFrame("B"), LLMTextFrame("A"), LLMFullResponseEndFrame,
            LLMFullResponseEndFrame>>
    /\ IsLog(Msgs(llm_trace[3])[2], "LLM complete: 2 chars")
    /\ Len(Msgs(llm_trace[4])) = 1
    /\ llm_progress.assistant_text = ""

(***************************************************************************)
(* C11.                                                                    *)
(***************************************************************************)
\* The types of a sequence of messages.
TypesOf(msgs) == [i \in 1..Len(msgs) |-> msgs[i].type]

\* The notification types section 4 of the design gives for a call, in order.
TypesInOrder(c) ==
    CASE Kind(c) = "InterimTranscriptionFrame" -> <<"status">>
      [] Kind(c) = "TranscriptionFrame" -> <<"status", "log", "transcript", "status", "log">>
      [] Kind(c) = "LLMFullResponseStartFrame" -> <<"log">>
      [] Kind(c) = "LLMTextFrame" /\ "assistant_text" \in DOMAIN c.before -> <<"transcript">>
      [] Kind(c) = "LLMFullResponseEndFrame" /\ "assistant_text" \in DOMAIN c.before ->
            IF c.before.assistant_text # "" THEN <<"transcript", "log", "log">>
            ELSE <<"log">>
      [] Kind(c) \in {"TTSStartedFrame", "TTSSpeakFrame"}
            /\ "is_speaking" \in DOMAIN c.before ->
            (IF c.before.is_speaking THEN <<>> ELSE <<"status">>)
            \o (IF Kind(c) = "TTSSpeakFrame" \/ ~c.before.is_speaking
                THEN <<"log">> ELSE <<>>)
      [] Kind(c) \in {"TTSStoppedFrame", "StartInterruptionFrame"}
            /\ "is_speaking" \in DOMAIN c.before ->
            IF c.before.is_speaking THEN <<"status", "log">> ELSE <<>>
      [] OTHER -> <<>>

\* The pushes of a call are its notifications, then its frame.
NotificationsThenFrame(c, types) ==
    /\ Len(c.pushed) = Len(types) + 1
    /\ \A k \in 1..Len(types) :
          /\ c.pushed[k].by = "notify"
          /\ c.pushed[k].frame.message.type = types[k]
    /\ c.pushed[Len(c.pushed)] =
          [frame |-> c.frame, direction |-> c.direction, by |-> "forward"]

\* An observer's calls of the kinds it tests for follow the order; its other
\* calls push the frame alone.
ContiguousIn(trace, kinds) ==
    \A i \in 1..Len(trace) :
        NotificationsThenFrame(trace[i],
            IF Kind(trace[i]) \in kinds THEN TypesInOrder(trace[i]) ELSE <<>>)

\* C11: handling one frame, an observer pushes the notifications derived
\* from it in the order of section 4 and passes the frame through directly
\* after them, before it takes the next frame; so what an observer pushes is,
\* frame by frame, the frame's notifications followed by the frame itself.
C11_NotificationsPrecedeFrame ==
    /\ ContiguousIn(stt_trace, STTKinds)
    /\ ContiguousIn(llm_trace, LLMKinds)
    /\ ContiguousIn(tts_trace, TTSKinds)

\* C11 witness: stt_progress pushed five notifications and then the
\* TranscriptionFrame, and tts_status then pushed two and its TTSStartedFrame.
C11_Witness ==
    /\ Len(stt_trace) = 1 /\ Len(tts_trace) = 1
    /\ Kind(stt_trace[1]) = "TranscriptionFrame"
    /\ Len(stt_trace[1].pushed) = 6
    /\ stt_trace[1].pushed[6].by = "forward"
    /\ Kind(tts_trace[1]) = "TTSStartedFrame"
    /\ [k \in 1..3 |-> tts_trace[1].pushed[k].by] = <<"notify", "notify", "forward">>

(***************************************************************************)
(* C13.                                                                    *)
(***************************************************************************)
\* The message of the log a call pushed whose text starts with prefix.
LogStarting(c, prefix) ==
    LET m == Msgs(c)
    IN m[CHOOSE k \in 1..Len(m) : IsLogStarting(m[k], prefix)]

\* The preview of a text cut at n characters.
PreviewAt(text, n) ==
    IF Len(text) > n THEN SubSeq(text, 1, n) \o "..." ELSE text

\* C13: the STT log of a TranscriptionFrame holds the first 50 characters of
\* the text and "..." when the text is longer than 50 characters, and the
\* whole text without "..." when it has at most 50; the TTS log of a
\* TTSSpeakFrame likewise with 30 characters.
C13_PreviewTruncation ==
    /\ \A i \in 1..Len(stt_trace) :
          Kind(stt_trace[i]) = "TranscriptionFrame" =>
              LogStarting(stt_trace[i], "STT: ").text
                  = "STT: \"" \o PreviewAt(stt_trace[i].frame.text, 50) \o "\""
    /\ \A i \in 1..Len(tts_trace) :
          Kind(tts_trace[i]) = "TTSSpeakFrame" =>
              LogStarting(tts_trace[i], "TTS: ").text
                  = "TTS: \"" \o PreviewAt(tts_trace[i].frame.text, 30) \o "\""

\* C13 witness: a transcription of 51 characters logged as its first 50 and
\* "...", and a TTSSpeakFrame of 30 characters logged whole.
C13_Witness ==
    /\ Len(stt_trace) = 1 /\ Len(tts_trace) = 1
    /\ stt_trace[1].frame = TranscriptionFrame(Text51)
    /\ Msgs(stt_trace[1])[2].text = "STT: \"" \o Text50 \o "...\""
    /\ tts_trace[1].frame = TTSSpeakFrame(Text30)
    /\ LogStarting(tts_trace[1], "TTS: ").text = "TTS: \"" \o Text30 \o "\""

(***************************************************************************)
(* C14.                                                                    *)
(***************************************************************************)
\* The call left the observer as it was and pushed its frame, untouched, and
\* nothing else.
Ignored(c) ==
    /\ c.after = c.before
    /\ Msgs(c) = <<>>
    /\ c.pushed = <<[frame |-> c.frame, direction |-> c.direction, by |-> "forward"]>>

\* C14: a frame of a kind an observer does not test for makes it push no
\* notification, leaves its counter, accumulated text and speaking flag as
\* they were, and is passed through untouched.
C14_UnhandledKindsIgnored ==
    /\ \A i \in 1..Len(stt_trace) :
          Kind(stt_trace[i]) \notin STTKinds => Ignored(stt_trace[i])
    /\ \A i \in 1..Len(llm_trace) :
          Kind(llm_trace[i]) \notin LLMKinds => Ignored(llm_trace[i])
    /\ \A i \in 1..Len(tts_trace) :
          Kind(tts_trace[i]) \notin TTSKinds => Ignored(tts_trace[i])

\* C14 witness: llm_progress, with text accumulated, was given a
\* TranscriptionFrame and left the text as it was.
C14_Witness ==
    /\ Len(llm_trace) = 2
    /\ Kind(llm_trace[1]) = "LLMTextFrame"
    /\ Kind(llm_trace[2]) = "TranscriptionFrame"
    /\ llm_progress.assistant_text = "A"
    /\ Len(llm_trace[2].pushed) = 1

(***************************************************************************)
(* C17.                                                                    *)
(***************************************************************************)
\* The status values of the status notifications among msgs, in order.
StatusesOf(msgs) ==
    LET st == SelectSeq(msgs, LAMBDA m : m.type = "status")
    IN [k \in 1..Len(st) |-> st[k].status]

\* Call i is a TTSSpeakFrame taken with the flag false.
SpeakAlone(i) ==
    /\ i \in 1..Len(tts_trace)
    /\ Kind(tts_trace[i]) = "TTSSpeakFrame"
    /\ ~tts_trace[i].before.is_speaking

\* Calls j and j + 1 are a TTSStartedFrame taken with the flag false and the
\* TTSSpeakFrame that follows it.
StartedThenSpeak(j) ==
    /\ j \in 1..(Len(tts_trace) - 1)
    /\ Kind(tts_trace[j]) = "TTSStartedFrame"
    /\ ~tts_trace[j].before.is_speaking
    /\ Kind(tts_trace[j + 1]) = "TTSSpeakFrame"

\* C17: from a false flag, a TTSSpeakFrame alone and a TTSStartedFrame
\* followed by a TTSSpeakFrame each push exactly one status, "tts", and leave
\* the flag true; for the same text the two orderings push the same statuses
\* and end in the same observer state.
C17_OrderingsConverge ==
    /\ \A i \in 1..Len(tts_trace) :
          SpeakAlone(i) =>
              /\ StatusesOf(Msgs(tts_trace[i])) = <<"tts">>
              /\ tts_trace[i].after.is_speaking
    /\ \A j \in 1..Len(tts_trace) :
          StartedThenSpeak(j) =>
              /\ StatusesOf(Msgs(tts_trace[j]) \o Msgs(tts_trace[j + 1])) = <<"tts">>
              /\ tts_trace[j + 1].after.is_speaking
    /\ \A i, j \in 1..Len(tts_trace) :
          (SpeakAlone(i) /\ StartedThenSpeak(j)
              /\ tts_trace[i].frame = tts_trace[j + 1].frame) =>
              /\ StatusesOf(Msgs(tts_trace[i]))
                    = StatusesOf(Msgs(tts_trace[j]) \o Msgs(tts_trace[j + 1]))
              /\ tts_trace[i].after = tts_trace[j + 1].after

\* C17 witness: one run holds both orderings for the same text, each taken
\* from a false flag.
C17_Witness ==
    /\ Len(tts_trace) = 4
    /\ SpeakAlone(1)
    /\ Kind(tts_trace[2]) = "TTSStoppedFrame"
    /\ StartedThenSpeak(3)
    /\ tts_trace[1].frame = TTSSpeakFrame(Text31)
    /\ tts_trace[4].frame = TTSSpeakFrame(Text31)
    /\ StatusesOf(MsgsOf(PushedStream(tts_trace))) = <<"tts", "idle", "tts">>

(***************************************************************************)
(* C20.                                                                    *)
(***************************************************************************)
\* The statuses tts_status has pushed since it was constructed.
TTSStatuses == StatusesOf(MsgsOf(PushedStream(tts_trace)))

\* C20: the speaking flag is true exactly when tts_status has pushed a
\* status and the last one is "tts"; the statuses it pushes alternate
\* "tts", "idle", "tts", ... from the first.
C20_FlagMatchesLastStatus ==
    /\ tts_status.is_speaking
          <=> (TTSStatuses # <<>> /\ TTSStatuses[Len(TTSStatuses)] = "tts")
    /\ \A k \in 1..Len(TTSStatuses) :
          TTSStatuses[k] = (IF k % 2 = 1 THEN "tts" ELSE "idle")

\* C20 witness: speech started, was interrupted and started again; frames
\* that change nothing came in between.
C20_Witness ==
    /\ Len(tts_trace) = 4
    /\ TTSStatuses = <<"tts", "idle", "tts">>
    /\ tts_status.is_speaking
    /\ Kind(tts_trace[2]) = "StartInterruptionFrame"
    /\ Kind(tts_trace[4]) = "TTSStartedFrame"
    /\ Msgs(tts_trace[4]) = <<>>

(***************************************************************************)
(* C12.                                                                    *)
(***************************************************************************)
\* m is the final user transcript of the n-th TranscriptionFrame.
IsFinalUserTranscript(m, n) ==
    /\ m.type = "transcript" /\ m.role = "user" /\ m.final
    /\ "messageId" \in DOMAIN m /\ m.messageId = n

\* Number of llm statuses among the first i messages the client got.
LLMStatusesUpTo(i) == CountStatus(SubSeq(client, 1, i), "llm")

\* Every notification stt_progress has pushed.
STTNotifications == MsgsOf(PushedStream(stt_trace))

\* The messages the client got that stt_progress pushed.
ClientFromSTT ==
    SelectSeq(client,
              LAMBDA m : \E k \in 1..Len(STTNotifications) : STTNotifications[k] = m)

\* The calls of a trace on OutputTransportMessageFrame frames left the
\* observer as it was and pushed the frame alone.
NotificationsIgnored(trace) ==
    \A i \in 1..Len(trace) :
        Kind(trace[i]) = "OutputTransportMessageFrame" => Ignored(trace[i])

\* C12: at the client, the n-th llm status comes after the final user
\* transcript of the n-th TranscriptionFrame; llm_progress and tts_status
\* hand the notifications of stt_progress on unchanged and in order, and do
\* not react to them.
C12_TranscriptBeforeLLMStatus ==
    /\ \A i \in 1..Len(client) :
          IsStatus(client[i], "llm") =>
              \E j \in 1..(i - 1) : IsFinalUserTranscript(client[j], LLMStatusesUpTo(i))
    /\ ClientFromSTT = SubSeq(STTNotifications, 1, Len(ClientFromSTT))
    /\ NotificationsIgnored(llm_trace)
    /\ NotificationsIgnored(tts_trace)

\* C12 witness: the five notifications of a TranscriptionFrame reached the
\* client, the transcript third and the llm status fourth, with a status of
\* tts_status sent before them.
C12_Witness ==
    /\ Len(client) = 7
    /\ IsStatus(client[1], "tts")
    /\ IsFinalUserTranscript(client[5], 1)
    /\ IsStatus(client[6], "llm")
    /\ ClientFromSTT = STTNotifications

(***************************************************************************)
(* C15.                                                                    *)
(***************************************************************************)
\* A process_frame call is made in this step, in the run_bot call of pc_id.
HandledIn(pc_id) ==
    /\ Len(bots_trace') = Len(bots_trace) + 1
    /\ bots_trace'[Len(bots_trace')].pc_id = pc_id

\* C15: handling a frame in one session changes neither the counters, the
\* accumulated text or the speaking flag of any other session, nor what has
\* been pushed towards the other session's client.
C15_SessionsIndependent ==
    [][\A s \in Connections : \A t \in Connections \ {s} :
          HandledIn(s) => bots'[t] = bots[t]]_vars

\* C15 witness: frames of the two sessions were handled in turn, 1, 2, 1;
\* each session has its own counter value, flag and channel.
C15_Witness ==
    /\ Len(bots_trace) = 3
    /\ [k \in 1..3 |-> bots_trace[k].pc_id] = <<1, 2, 1>>
    /\ bots[1].stt_progress.user_message_id = 2
    /\ bots[2].stt_progress.user_message_id = 0
    /\ bots[2].tts_status.is_speaking /\ ~bots[1].tts_status.is_speaking
    /\ Len(bots[1].channel) = 10
    /\ Len(bots[2].channel) = 2

(***************************************************************************)
(* C18.                                                                    *)
(***************************************************************************)
\* The call was refused by one of the two validations of process_file.
ValidationError(c) ==
    /\ c.raised # None
    /\ c.raised[1].type = "ValueError"
    /\ c.raised[1].message \in {"File too large. Max size is 10MB",
                                "Only PDF and TXT files are supported"}

\* The five fields of the processor the call could have written.
BookFields(self) ==
    <<self.file_uri, self.mime_type, self.book_title, self.file_info, self.temp_file_path>>

\* C18: process_file refuses content of more than 10 * 1024 * 1024 bytes and
\* filenames that do not end, in lower case, in .pdf or .txt, and accepts
\* content of exactly that size; a refusal leaves file_uri, mime_type,
\* book_title, file_info and the temp-file path as they were; a call that
\* returns gives a file URI, application/pdf or text/plain by extension, and
\* the filename.
C18_ProcessFileValidation ==
    \A i \in 1..Len(book_trace) :
        LET c == book_trace[i]
        IN c.op = "process_file" =>
            /\ ValidationError(c)
                  <=> (c.size > 10485760 \/ c.filename \in OtherNames)
            /\ ValidationError(c) => BookFields(c.after) = BookFields(c.before)
            /\ c.raised = None =>
                  /\ c.result # None
                  /\ c.result[1].file_uri = c.after.file_uri[1]
                  /\ c.result[1].mime_type
                        = (IF c.filename \in PdfNames THEN "application/pdf"
                           ELSE "text/plain")
                  /\ c.result[1].filename = c.filename

\* C18 witness: content of exactly 10 MB named BOOK.PDF was uploaded, and a
\* second call with one byte more was refused and left the uploaded file in
\* place.
C18_Witness ==
    /\ Len(book_trace) = 2
    /\ book_trace[1].op = "process_file" /\ book_trace[2].op = "process_file"
    /\ book_trace[1].size = MAX_FILE_SIZE /\ book_trace[1].filename = "BOOK.PDF"
    /\ book_trace[1].raised = None
    /\ book_trace[1].result[1].mime_type = "application/pdf"
    /\ book_trace[2].size = MAX_FILE_SIZE + 1
    /\ ValidationError(book_trace[2])
    /\ HasFile(book_processor[1])
    /\ book_processor[1].book_title = Some("BOOK.PDF")

(***************************************************************************)
(* C19.                                                                    *)
(***************************************************************************)
\* The snippet of a page: its text cut to 500 characters, or nothing.
Snippet(page) ==
    IF page.text = None THEN ""
    ELSE IF Len(page.text[1]) > 500 THEN SubSeq(page.text[1], 1, 500)
    ELSE page.text[1]

\* The numbered block for the i-th page of an answer.
Block(i, page) ==
    ToString(i) \o ". " \o page.title \o "\n   URL: " \o page.url \o "\n   "
    \o Snippet(page)

\* The blocks of the pages from the i-th on, an empty line between two.
RECURSIVE BlocksFrom(_, _)
BlocksFrom(pages, i) ==
    IF i > Len(pages) THEN ""
    ELSE Block(i, pages[i]) \o (IF i < Len(pages) THEN "\n\n" ELSE "")
         \o BlocksFrom(pages, i + 1)

\* The answer search_web owes the language model for a call.
Answer(c) ==
    IF ~c.configured THEN "Search error: Web search is not configured"
    ELSE IF c.response.raises # None THEN "Search error: " \o c.response.raises[1]
    ELSE IF c.response.results = <<>> THEN "No results found."
    ELSE BlocksFrom(c.response.results, 1)

\* C19: every search_web call passes exactly one string to result_callback
\* and raises nothing: the numbered block of titles, URLs and snippets of at
\* most 500 characters when the search answers with results, "No results
\* found." when it answers with none, and a "Search error: ..." string when
\* no client is configured or the search call raises.
C19_SearchWebAnswersOnce ==
    \A i \in 1..Len(search_trace) :
        LET c == search_trace[i]
        IN /\ c.raised = None
           /\ c.callbacks = <<Answer(c)>>

\* C19 witness: a search that raised was answered with its error, and the
\* next one with two results, the first cut from 501 characters to 500.
C19_Witness ==
    /\ Len(search_trace) = 2
    /\ search_trace[1].callbacks = <<"Search error: timeout">>
    /\ Len(search_trace[2].response.results) = 2
    /\ search_trace[2].response.results[1].text = Some(Text501)
    /\ search_trace[2].response.results[2].text = None
    /\ search_trace[2].callbacks
          = <<"1. T\n   URL: u\n   " \o Text500 \o "\n\n2. T\n   URL: u\n   ">>

(***************************************************************************)
(* C21.                                                                    *)
(***************************************************************************)
\* The transcripts llm_progress has pushed, in order.
AssistantTranscripts ==
    SelectSeq(MsgsOf(PushedStream(llm_trace)), LAMBDA m : m.type = "transcript")

\* C21: with whole turns as input, a final transcript is the last transcript
\* that carries its messageId (so no messageId gets two), the transcript
\* pushed just before it is the last snapshot of the same turn and has the
\* same text, and a turn whose chunks make up the empty text gets no final
\* transcript.
C21_OneFinalPerTurn ==
    LET T == AssistantTranscripts
    IN /\ \A i \in 1..Len(T) :
             T[i].final =>
                 /\ \A j \in (i + 1)..Len(T) : T[j].messageId # T[i].messageId
                 /\ i > 1
                 /\ ~T[i - 1].final
                 /\ T[i - 1].messageId = T[i].messageId
                 /\ T[i - 1].text = T[i].text
       /\ \A i \in 1..Len(llm_trace) : \A s \in 1..Len(llm_trace) :
             (/\ TurnOf(llm_trace, s, i)
              /\ Kind(llm_trace[i]) = "LLMFullResponseEndFrame"
              /\ ChunksText(llm_trace, s, i) = "") =>
                 CountType(Msgs(llm_trace[i]), "transcript") = 0

\* C21 witness: a turn with an empty chunk ended without a final transcript;
\* the next turn ended with the final transcript "A", messageId 2, right
\* after its snapshot "A".
C21_Witness ==
    /\ Len(llm_trace) = 6
    /\ [i \in 1..6 |-> llm_trace[i].frame] =
          <<LLMFullResponseStartFrame, LLMTextFrame(""), LLMFullResponseEndFrame,
            LLMFullResponseStartFrame, LLMTextFrame("A"), LLMFullResponseEndFrame>>
    /\ Len(AssistantTranscripts) = 3
    /\ IsTranscript(AssistantTranscripts[1], "assistant", "", FALSE, 1)
    /\ IsTranscript(AssistantTranscripts[2], "assistant", "A", FALSE, 2)
    /\ IsTranscript(AssistantTranscripts[3], "assistant", "A", TRUE, 2)

(***************************************************************************)
(* C22.                                                                    *)
(***************************************************************************)
\* C22: for every input sequence, no assistant transcript pushed after a
\* final one carries the final one's messageId, and every assistant
\* transcript carries a messageId of at least 1.
C22_NoIdAfterFinal ==
    LET T == AssistantTranscripts
    IN \A i \in 1..Len(T) :
          /\ "messageId" \in DOMAIN T[i]
          /\ T[i].messageId >= 1
          /\ T[i].final => \A j \in (i + 1)..Len(T) : T[j].messageId # T[i].messageId

(***************************************************************************)
(* C24.                                                                    *)
(***************************************************************************)
\* The processor holds nothing.
HoldsNothing(self) ==
    /\ BookFields(self) = <<None, None, None, None, None>>
    /\ ~HasFile(self)

\* The call is a process_file that got past the validations and whose
\* upload attempt raised.
UploadFailed(c) ==
    /\ c.op = "process_file"
    /\ c.raised # None
    /\ ~ValidationError(c)
    /\ c.raised[1].type # "OSError"

\* C24: clear leaves file_info, file_uri, mime_type, book_title and the
\* temp-file path unset and raises nothing, also when the remote delete or
\* the unlink fails; a process_file whose upload attempt fails after the
\* validations leaves the processor holding nothing as well.
C24_ClearAlwaysResets ==
    \A i \in 1..Len(book_trace) :
        LET c == book_trace[i]
        IN /\ c.op = "clear" => (c.raised = None /\ HoldsNothing(c.after))
           /\ UploadFailed(c) => HoldsNothing(c.after)

\* C24 witness: a file was uploaded, and a clear in which both the remote
\* delete and the unlink failed left the processor holding nothing.
C24_Witness ==
    /\ Len(book_trace) = 2
    /\ book_trace[1].op = "process_file" /\ book_trace[1].raised = None
    /\ HasFile(book_trace[2].before)
    /\ book_trace[2].op = "clear"
    /\ book_trace[2].deleteFails /\ book_trace[2].unlinkFails
    /\ ~book_trace[2].deleted /\ ~book_trace[2].unlinked
    /\ HoldsNothing(book_processor[1])

(***************************************************************************)
(* C23.                                                                    *)
(***************************************************************************)
\* The record of the session and its BookProcessor name the same book.
Mirrors(session) ==
    /\ session.file_uri = session.book_processor.file_uri
    /\ session.mime_type = session.book_processor.mime_type
    /\ session.book_title = session.book_processor.book_title
    /\ session.file_uri # None => HasFile(session.book_processor)

\* C23: after every completed upload-book or clear-book request the
\* file_uri, mime_type and book_title of the session record equal those of
\* the session's BookProcessor, and the record holds a file_uri only if
\* has_file() is true.
C23_RecordMirrorsProcessor ==
    \A session_id \in SessionIds :
        sessions[session_id] # None => Mirrors(sessions[session_id][1])

(***************************************************************************)
(* C25.                                                                    *)
(***************************************************************************)
\* The connection of offer i was constructed by that offer: nothing before
\* it in the trace names it.
NewlyCreated(i) ==
    /\ offer_trace[i].branch = "initialize"
    /\ \A j \in 1..(i - 1) : offer_trace[j].conn # offer_trace[i].conn

\* C25: run_bot is scheduled at most once per connection; an offer whose
\* pc_id the map held only renegotiates that connection and schedules
\* nothing; every other offer that returns schedules run_bot once, for the
\* connection it constructed; and the closed event of a connection takes it
\* out of the map.
C25_OneBotPerConnection ==
    /\ \A c \in 1..created : Scheduled(background_tasks, c) <= 1
    /\ \A i \in 1..Len(offer_trace) :
          LET o == offer_trace[i]
          IN /\ (o.op = "offer" /\ o.present) =>
                   /\ o.branch = "renegotiate" /\ o.conn = o.pc_id[1]
                   /\ o.tasks_after = o.tasks_before
             /\ (o.op = "offer" /\ ~o.present /\ ~o.raised) =>
                   /\ NewlyCreated(i)
                   /\ o.tasks_after = Append(o.tasks_before, o.conn)
                   /\ Scheduled(background_tasks, o.conn) = 1
             /\ (o.op = "offer" /\ ~o.raised) => o.conn \in o.connections_after
             /\ o.op = "closed" => o.conn \notin o.connections_after

\* C25 witness: an offer without pc_id made connection 1 and scheduled
\* run_bot for it, an offer naming pc_id 1 renegotiated it and scheduled
\* nothing, and the closed event took it out of the map.
C25_Witness ==
    /\ Len(offer_trace) = 3
    /\ offer_trace[1].op = "offer" /\ offer_trace[1].pc_id = None
    /\ offer_trace[1].conn = 1 /\ offer_trace[1].tasks_after = <<1>>
    /\ offer_trace[2].op = "offer" /\ offer_trace[2].pc_id = Some(1)
    /\ offer_trace[2].present /\ offer_trace[2].branch = "renegotiate"
    /\ ~offer_trace[2].raised
    /\ offer_trace[3].op = "closed" /\ offer_trace[3].conn = 1
    /\ 1 \in offer_trace[3].connections_before
    /\ background_tasks = <<1>>
    /\ connections = {}

=============================================================================
